---------------------------- MODULE Spec2Model ----------------------------
(***************************************************************************)
(* A model of gcd-rs: the Parser (src/src/parser.rs), the Composer         *)
(* (src/src/composer.rs) and the record codecs they call                   *)
(* (src/src/lib.rs, src/src/record/...).                                   *)
(*                                                                         *)
(* Bytes are the numbers 0..255, a stream is a sequence of bytes, and the  *)
(* byte order B of Parser<F, B> / Composer<F, B> is the variable endian.   *)
(***************************************************************************)
EXTENDS Integers, Sequences, FiniteSets, TLC

VARIABLES
    endian,           \* the type parameter B: "LE" or "BE"
    state,            \* Parser.state
    sum,              \* Parser.file.sum (ReadCheckSum.sum)
    descriptor_type,  \* Parser.descriptor_type
    firmware,         \* Parser.firmware
    eof,              \* the underlying reader has reached the end of the stream
    result,           \* what the last read_record call returned
    call,             \* the wire records the last read_record call consumed,
                      \* each with the grammar state it was matched in
    hist,             \* history of the calls made so far
    source,           \* the family of streams the Parser's reader is over
    c_sum,            \* Composer.file.sum (WriteCheckSum.sum)
    c_out,            \* the bytes the Composer's sink has accepted
    c_cap,            \* the most bytes the Composer's sink accepts per write call
    c_last,           \* the last Composer operation
    d_in,             \* input of the last DescriptorRecord::new application
    d_out,            \* its outcome
    rt_in,            \* the value the last codec round trip started from
    rt_out            \* what the round trip gave back

vars == <<endian, state, sum, descriptor_type, firmware, eof, result, call,
          hist, source, c_sum, c_out, c_cap, c_last, d_in, d_out, rt_in, rt_out>>

parserVars == <<state, sum, descriptor_type, firmware, eof, result, call, hist,
                source>>
composerVars == <<c_sum, c_out, c_cap, c_last>>
descVars == <<d_in, d_out>>
codecVars == <<rt_in, rt_out>>

-----------------------------------------------------------------------------
(* Bytes, wrapping arithmetic and byteorder's read_u16 / write_u16 ...     *)

Min(a, b) == IF a < b THEN a ELSE b

Take(s, n) == SubSeq(s, 1, Min(n, Len(s)))

Drop(s, n) == SubSeq(s, Min(n, Len(s)) + 1, Len(s))

Reverse(s) == [i \in 1..Len(s) |-> s[Len(s) + 1 - i]]

RECURSIVE SumBytes(_, _)
\* acc.wrapping_add(b) folded over the bytes of s; wrapping_add is the sum
\* modulo 256, so the fold over s is the fold over its first half plus the
\* fold from 0 over its second half
SumBytes(acc, s) ==
    IF s = <<>> THEN acc
    ELSE IF Len(s) = 1 THEN (acc + s[1]) % 256
    ELSE (SumBytes(acc, SubSeq(s, 1, Len(s) \div 2))
          + SumBytes(0, SubSeq(s, Len(s) \div 2 + 1, Len(s)))) % 256

wrapping_neg(x) == (256 - x) % 256

RECURSIVE Xor(_, _)
\* bitwise exclusive or of two naturals
Xor(a, b) ==
    IF a = 0 /\ b = 0 THEN 0
    ELSE ((a + b) % 2) + 2 * Xor(a \div 2, b \div 2)

\* B::read_u16(buf): the first two bytes of buf under byte order B
read_u16(B, buf) ==
    IF B = "LE" THEN buf[1] + 256 * buf[2] ELSE 256 * buf[1] + buf[2]

\* B::write_u16(buf, v)
write_u16(B, v) ==
    IF B = "LE" THEN <<v % 256, v \div 256>> ELSE <<v \div 256, v % 256>>

\* B::read_u32(buf): the first four bytes of buf under byte order B
read_u32(B, buf) ==
    IF B = "LE"
    THEN buf[1] + 256 * buf[2] + 65536 * buf[3] + 16777216 * buf[4]
    ELSE 16777216 * buf[1] + 65536 * buf[2] + 256 * buf[3] + buf[4]

\* B::write_u32(buf, v)
write_u32(B, v) ==
    IF B = "LE"
    THEN <<v % 256, (v \div 256) % 256, (v \div 65536) % 256, v \div 16777216>>
    ELSE <<v \div 16777216, (v \div 65536) % 256, (v \div 256) % 256, v % 256>>

\* An integer wider than 32 bits (u64, the 72-bit part number) is kept as its
\* digits base 256, most significant first: reading n bytes under B gives the
\* bytes themselves (BE) or their reverse (LE), and writing is the inverse.
read_wide(B, buf, n) == IF B = "LE" THEN Reverse(Take(buf, n)) ELSE Take(buf, n)

write_wide(B, digits) == IF B = "LE" THEN Reverse(digits) ELSE digits

-----------------------------------------------------------------------------
(* Reading from the stream: ReadCheckSum + Read::read_exact                *)

\* file.read_exact(&mut buf) for a buf of n bytes when `avail` is what the
\* stream still holds for this read: every byte actually read is folded
\* into sum; fewer than n bytes available is UnexpectedEof.
read_exact(s, avail, n) ==
    [ok  |-> Len(avail) >= n,
     buf |-> Take(avail, n),
     sum |-> SumBytes(s, Take(avail, n))]

-----------------------------------------------------------------------------
(* RecordHeader, src/src/lib.rs                                            *)

CHECKSUM_ID == 1
FILLER_ID == 2
MAIN_ID == 3
TEXT_ID == 5
DESCRIPTOR_TYPE_ID == 6
DESCRIPTOR_DATA_ID == 7
END_ID == 65535
RECORD_HEADER_LEN == 4

\* A faulty RecordHeader::from_value: id 1 is Checksum whatever the length
from_value_any_checksum(id, len) ==
    CASE id = CHECKSUM_ID -> [kind |-> "Checksum", id |-> id, len |-> len]
      [] id = FILLER_ID -> [kind |-> "Filler", id |-> id, len |-> len]
      [] id = MAIN_ID -> [kind |-> "MainHeader", id |-> id, len |-> len]
      [] id = TEXT_ID -> [kind |-> "Text", id |-> id, len |-> len]
      [] id = DESCRIPTOR_TYPE_ID -> [kind |-> "DescriptorType", id |-> id, len |-> len]
      [] id = DESCRIPTOR_DATA_ID -> [kind |-> "DescriptorData", id |-> id, len |-> len]
      [] id = END_ID /\ len = 0 -> [kind |-> "End", id |-> id, len |-> len]
      [] OTHER -> [kind |-> "Unknown", id |-> id, len |-> len]

\* RecordHeader::from_value(id, len)
from_value(id, len) ==
    CASE id = CHECKSUM_ID /\ len = 1 -> [kind |-> "Checksum", id |-> id, len |-> len]
      [] id = FILLER_ID -> [kind |-> "Filler", id |-> id, len |-> len]
      [] id = MAIN_ID -> [kind |-> "MainHeader", id |-> id, len |-> len]
      [] id = TEXT_ID -> [kind |-> "Text", id |-> id, len |-> len]
      [] id = DESCRIPTOR_TYPE_ID -> [kind |-> "DescriptorType", id |-> id, len |-> len]
      [] id = DESCRIPTOR_DATA_ID -> [kind |-> "DescriptorData", id |-> id, len |-> len]
      [] id = END_ID /\ len = 0 -> [kind |-> "End", id |-> id, len |-> len]
      [] OTHER -> [kind |-> "Unknown", id |-> id, len |-> len]

\* RecordHeader::id(&self)
header_id(h) ==
    CASE h.kind = "Unknown" -> h.id
      [] h.kind = "Checksum" -> CHECKSUM_ID
      [] h.kind = "Filler" -> FILLER_ID
      [] h.kind = "MainHeader" -> MAIN_ID
      [] h.kind = "Text" -> TEXT_ID
      [] h.kind = "DescriptorType" -> DESCRIPTOR_TYPE_ID
      [] h.kind = "DescriptorData" -> DESCRIPTOR_DATA_ID
      [] h.kind = "End" -> END_ID

\* RecordHeader::len(&self)
header_len(h) ==
    CASE h.kind = "Checksum" -> 1
      [] h.kind = "End" -> 0
      [] OTHER -> h.len

\* RecordHeader::from_raw::<B>(data) for a buffer of at least 4 bytes
from_raw(B, data) == from_value(read_u16(B, data), read_u16(B, Drop(data, 2)))

\* The 4 header bytes Composer::write_record_header / RecordHeader::to_raw emit
header_to_raw(B, h) == write_u16(B, header_id(h)) \o write_u16(B, header_len(h))

\* RecordHeader::from_raw::<B>(data) for any buffer: Err when it holds fewer
\* than 4 bytes
RecordHeader_from_raw(B, data) ==
    IF Len(data) < RECORD_HEADER_LEN
    THEN [ok |-> FALSE, hdr |-> [kind |-> "None", id |-> 0, len |-> 0], next |-> data]
    ELSE [ok |-> TRUE, hdr |-> from_raw(B, data), next |-> Drop(data, RECORD_HEADER_LEN)]

-----------------------------------------------------------------------------
(* Record and the io::Result<Record> a parse step returns                  *)

\* A Record value (src/src/lib.rs, enum Record): type is the variant of
\* Record, variant the variant of the record type inside it.
Rec(type, variant, id, len, data) ==
    [type |-> type, variant |-> variant, id |-> id, len |-> len, data |-> data]

NoRecord == Rec("None", "", 0, 0, <<>>)

\* Ok(rec) with the reader's sum after the call
Ok(rec, s) == [ok |-> TRUE, rec |-> rec, err |-> "", sum |-> s, eof |-> FALSE]

\* Err(Error::new(.., msg)) with the reader's sum after the call
Err(msg, s) == [ok |-> FALSE, rec |-> NoRecord, err |-> msg, sum |-> s, eof |-> FALSE]

\* The Err of a read_exact that ran out of bytes
Eof(s) == [ok |-> FALSE, rec |-> NoRecord, err |-> "UnexpectedEof", sum |-> s, eof |-> TRUE]

-----------------------------------------------------------------------------
(* record/checksum.rs, record/filler.rs, record/main.rs, record/text.rs,   *)
(* record/firmware.rs: the decoders                                        *)

\* ChecksumRecord::new(data, checksum); s is the reader's sum, which the
\* call leaves as it is
ChecksumRecord_new(data, checksum, s) ==
    IF Len(data) # 1 \/ checksum # 0
    THEN Err("Invalid Checksum Value", s)
    ELSE Ok(Rec("Checksum", "Simple", 0, 0, <<>>), s)

\* A faulty FillerRecord::new: only the first byte is looked at
FillerRecord_new_first_byte(data, s) ==
    IF data # <<>> /\ data[1] # 0
    THEN Err("Invalid Filler Record value", s)
    ELSE Ok(Rec("Filler", "Zeros", 0, Len(data) % 65536, <<>>), s)

\* FillerRecord::new(data); data.len() as u16 is the length mod 65536
FillerRecord_new(data, s) ==
    IF \E i \in 1..Len(data) : data[i] # 0
    THEN Err("Invalid Filler Record value", s)
    ELSE Ok(Rec("Filler", "Zeros", 0, Len(data) % 65536, <<>>), s)

DEFAULT_HWID == 55

\* DEFAULT_PART_NUMBER = 0x41140D4504135CD410, as its 9 digits base 256
DEFAULT_PART_NUMBER == <<65, 20, 13, 69, 4, 19, 92, 212, 16>>

\* A faulty MainRecord::new: any 2-byte value is the hardware id
MainRecord_new_any_hwid(B, s, avail, lenght) ==
    CASE lenght = 9 ->
           LET r == read_exact(s, avail, 9) IN
           IF ~r.ok THEN Eof(r.sum)
           ELSE IF read_wide(B, r.buf, 9) = DEFAULT_PART_NUMBER
           THEN Ok(Rec("MainHeader", "DefaultPartNumber", 0, 0, <<>>), r.sum)
           ELSE Err("Invalid/Unknown MainRecord PartNumber", r.sum)
      [] lenght = 2 ->
           LET r == read_exact(s, avail, 2) IN
           IF ~r.ok THEN Eof(r.sum)
           ELSE Ok(Rec("MainHeader", "DefaultHWID", 0, 0, <<>>), r.sum)
      [] OTHER -> Err("Invalid/Unknown Main Record", s)

\* MainRecord::new::<F, B>(file, lenght)
MainRecord_new(B, s, avail, lenght) ==
    CASE lenght = 9 ->
           LET r == read_exact(s, avail, 9) IN
           IF ~r.ok THEN Eof(r.sum)
           ELSE IF read_wide(B, r.buf, 9) = DEFAULT_PART_NUMBER
           THEN Ok(Rec("MainHeader", "DefaultPartNumber", 0, 0, <<>>), r.sum)
           ELSE Err("Invalid/Unknown MainRecord PartNumber", r.sum)
      [] lenght = 2 ->
           LET r == read_exact(s, avail, 2) IN
           IF ~r.ok THEN Eof(r.sum)
           ELSE IF read_u16(B, r.buf) # DEFAULT_HWID
           THEN Err("Invalid/Unknown MainRecord HWID", r.sum)
           ELSE Ok(Rec("MainHeader", "DefaultHWID", 0, 0, <<>>), r.sum)
      [] OTHER -> Err("Invalid/Unknown Main Record", s)

IsCont(b) == b >= 128 /\ b <= 191

RECURSIVE from_utf8(_)
\* core::str::from_utf8(data).is_ok()
from_utf8(d) ==
    IF d = <<>> THEN TRUE
    ELSE LET b == d[1]
             n == Len(d) IN
         CASE b < 128 -> from_utf8(Drop(d, 1))
           [] b >= 194 /\ b <= 223 ->
                n >= 2 /\ IsCont(d[2]) /\ from_utf8(Drop(d, 2))
           [] b >= 224 /\ b <= 239 ->
                /\ n >= 3
                /\ IsCont(d[2]) /\ IsCont(d[3])
                /\ (b = 224 => d[2] >= 160)
                /\ (b = 237 => d[2] <= 159)
                /\ from_utf8(Drop(d, 3))
           [] b >= 240 /\ b <= 244 ->
                /\ n >= 4
                /\ IsCont(d[2]) /\ IsCont(d[3]) /\ IsCont(d[4])
                /\ (b = 240 => d[2] >= 144)
                /\ (b = 244 => d[2] <= 143)
                /\ from_utf8(Drop(d, 4))
           [] OTHER -> FALSE

\* A faulty TextRecord::new: the payload is never taken for a String
TextRecord_new_blob(s, avail, lenght) ==
    LET r == read_exact(s, avail, lenght) IN
    IF ~r.ok THEN Eof(r.sum)
    ELSE Ok(Rec("Text", "Blob", 0, 0, r.buf), r.sum)

\* TextRecord::new(file, lenght)
TextRecord_new(s, avail, lenght) ==
    LET r == read_exact(s, avail, lenght) IN
    IF ~r.ok THEN Eof(r.sum)
    ELSE IF from_utf8(r.buf)
    THEN Ok(Rec("Text", "Simple", 0, 0, r.buf), r.sum)
    ELSE Ok(Rec("Text", "Blob", 0, 0, r.buf), r.sum)

\* FirmwareRecord::new(data, id)
FirmwareRecord_new(data, id) ==
    IF Len(data) = 0
    THEN Rec("FirmwareData", "EmptyChunk", id, 0, <<>>)
    ELSE Rec("FirmwareData", "Chunk", id, 0, data)

-----------------------------------------------------------------------------
(* record/descriptor/descriptor_type.rs                                    *)

\* A DescriptorType value: kind is the variant; End carries no id and only
\* Other carries a lenght, the unused fields are 0.
DType(kind, id, lenght) == [kind |-> kind, id |-> id, lenght |-> lenght]

\* A faulty DescriptorType::from_raw: every kind above 4 is End
DescriptorType_from_raw_lenient(B, data) ==
    IF Len(data) < 2
    THEN [ok |-> FALSE, val |-> DType("End", 0, 0), next |-> data,
          err |-> "Descriptor Type is bigger than the data available"]
    ELSE LET value == read_u16(B, data)
             kind == value \div 4096
             id == value % 4096 IN
         CASE kind < 4 -> [ok |-> TRUE,
                           val |-> DType(<<"U8", "U16", "U32", "U64">>[kind + 1], id, 0),
                           next |-> Drop(data, 2), err |-> ""]
           [] kind = 4 ->
                IF Len(data) < 4
                THEN [ok |-> FALSE, val |-> DType("End", 0, 0), next |-> data,
                      err |-> "Descriptor Type Other is missing the lenght"]
                ELSE [ok |-> TRUE,
                      val |-> DType("Other", id, read_u16(B, Drop(data, 2))),
                      next |-> Drop(data, 4), err |-> ""]
           [] OTHER -> [ok |-> TRUE, val |-> DType("End", 0, 0),
                        next |-> Drop(data, 2), err |-> ""]

\* DescriptorType::from_raw::<B>(data): ok, the decoded slot and the rest
DescriptorType_from_raw(B, data) ==
    IF Len(data) < 2
    THEN [ok |-> FALSE, val |-> DType("End", 0, 0), next |-> data,
          err |-> "Descriptor Type is bigger than the data available"]
    ELSE LET value == read_u16(B, data)
             kind == value \div 4096
             id == value % 4096 IN
         CASE kind = 0 -> [ok |-> TRUE, val |-> DType("U8", id, 0),
                        next |-> Drop(data, 2), err |-> ""]
           [] kind = 1 -> [ok |-> TRUE, val |-> DType("U16", id, 0),
                        next |-> Drop(data, 2), err |-> ""]
           [] kind = 2 -> [ok |-> TRUE, val |-> DType("U32", id, 0),
                        next |-> Drop(data, 2), err |-> ""]
           [] kind = 3 -> [ok |-> TRUE, val |-> DType("U64", id, 0),
                        next |-> Drop(data, 2), err |-> ""]
           [] kind = 4 ->
                IF Len(data) < 4
                THEN [ok |-> FALSE, val |-> DType("End", 0, 0), next |-> data,
                      err |-> "Descriptor Type Other is missing the lenght"]
                ELSE [ok |-> TRUE,
                      val |-> DType("Other", id, read_u16(B, Drop(data, 2))),
                      next |-> Drop(data, 4), err |-> ""]
           [] kind = 5 -> [ok |-> TRUE, val |-> DType("End", 0, 0),
                        next |-> Drop(data, 2), err |-> ""]
           [] OTHER -> [ok |-> FALSE, val |-> DType("End", 0, 0), next |-> data,
                        err |-> "Descriptor Type has unknown value"]

\* DescriptorType::kind(&self)
DescriptorType_kind(t) ==
    CASE t.kind = "U8" -> 0
      [] t.kind = "U16" -> 1
      [] t.kind = "U32" -> 2
      [] t.kind = "U64" -> 3
      [] t.kind = "Other" -> 4
      [] t.kind = "End" -> 5

\* DescriptorType::id(&self)
DescriptorType_id(t) == IF t.kind = "End" THEN 3 ELSE t.id

\* DescriptorType::value(&self)
DescriptorType_value(t) == DescriptorType_kind(t) * 4096 + DescriptorType_id(t)

\* DescriptorType::len(&self)
DescriptorType_len(t) == IF t.kind = "Other" THEN 4 ELSE 2

\* DescriptorType::data_len(&self)
DescriptorType_data_len(t) ==
    CASE t.kind = "U8" -> 1
      [] t.kind = "U16" -> 2
      [] t.kind = "U32" -> 4
      [] t.kind = "U64" -> 8
      [] t.kind = "Other" -> t.lenght
      [] t.kind = "End" -> 0

\* DescriptorType::to_raw::<B>(&self, data): the bytes written
DescriptorType_to_raw(B, t) ==
    IF t.kind = "Other"
    THEN write_u16(B, DescriptorType_value(t)) \o write_u16(B, t.lenght)
    ELSE write_u16(B, DescriptorType_value(t))

-----------------------------------------------------------------------------
(* record/descriptor.rs: DescriptorTypeRecord                              *)

RECURSIVE DecodeTypes(_, _)
\* the while loop of DescriptorTypeRecord::new over the payload
DecodeTypes(B, current) ==
    IF Len(current) = 0 THEN [ok |-> TRUE, descs |-> <<>>, err |-> ""]
    ELSE LET d == DescriptorType_from_raw(B, current) IN
         IF ~d.ok THEN [ok |-> FALSE, descs |-> <<>>, err |-> d.err]
         ELSE LET rest == DecodeTypes(B, d.next) IN
              [ok |-> rest.ok,
               descs |-> IF rest.ok THEN <<d.val>> \o rest.descs ELSE <<>>,
               err |-> rest.err]

\* DescriptorTypeRecord::new::<F, B>(file, lenght); rec.data is the Vec of
\* DescriptorTypeRecord::Simple
DescriptorTypeRecord_new(B, s, avail, lenght) ==
    IF lenght % 2 # 0
    THEN Err("Record Descriptor type size need to be multiple of 2", s)
    ELSE LET r == read_exact(s, avail, lenght) IN
         IF ~r.ok THEN Eof(r.sum)
         ELSE LET d == DecodeTypes(B, r.buf) IN
              IF ~d.ok THEN Err(d.err, r.sum)
              ELSE Ok(Rec("DescriptorType", "Simple", 0, 0, d.descs), r.sum)

RECURSIVE SumU16(_)
\* iter.sum::<u16>() over a sequence of u16: the wrapped value, and whether
\* an addition overflowed (a panic when overflow checks are compiled in)
SumU16(xs) ==
    IF xs = <<>> THEN [val |-> 0, overflow |-> FALSE]
    ELSE LET init == SumU16(SubSeq(xs, 1, Len(xs) - 1))
             raw == init.val + xs[Len(xs)] IN
         [val |-> raw % 65536, overflow |-> init.overflow \/ raw > 65535]

\* DescriptorTypeRecord::data_len(&self)
DescriptorTypeRecord_data_len(descs) ==
    SumU16([i \in 1..Len(descs) |-> DescriptorType_data_len(descs[i])])

-----------------------------------------------------------------------------
(* record/descriptor/descriptor_data.rs                                    *)

\* A DescriptorData value: data is the number of a U8, U16 or U32 slot, bytes
\* the digits of a U64 slot or the Vec of an Other slot; End carries nothing.
\* The unused fields are 0 and <<>>.
DData(kind, id, data, bytes) ==
    [kind |-> kind, id |-> id, data |-> data, bytes |-> bytes]

\* DescriptorData::from_raw::<B>(descriptor_type, data)
DescriptorData_from_raw(B, t, data) ==
    LET len == DescriptorType_data_len(t) IN
    IF Len(data) < len
    THEN [ok |-> FALSE, val |-> DData("End", 0, 0, <<>>), next |-> data]
    ELSE [ok |-> TRUE,
          val |-> CASE t.kind = "U8" -> DData("U8", t.id, data[1], <<>>)
                    [] t.kind = "U16" -> DData("U16", t.id, read_u16(B, data), <<>>)
                    [] t.kind = "U32" -> DData("U32", t.id, read_u32(B, data), <<>>)
                    [] t.kind = "U64" -> DData("U64", t.id, 0, read_wide(B, data, 8))
                    [] t.kind = "Other" -> DData("Other", t.id, 0, Take(data, len))
                    [] t.kind = "End" -> DData("End", 0, 0, <<>>),
          next |-> Drop(data, len)]

\* DescriptorData::descriptor_type(&self)
DescriptorData_descriptor_type(d) ==
    CASE d.kind = "Other" -> DType("Other", d.id, Len(d.bytes) % 65536)
      [] d.kind = "End" -> DType("End", 0, 0)
      [] OTHER -> DType(d.kind, d.id, 0)

\* DescriptorData::len(&self)
DescriptorData_len(d) == DescriptorType_data_len(DescriptorData_descriptor_type(d))

\* DescriptorData::to_raw::<B>(&self, buf): the bytes written
DescriptorData_to_raw(B, d) ==
    CASE d.kind = "U8" -> <<d.data>>
      [] d.kind = "U16" -> write_u16(B, d.data)
      [] d.kind = "U32" -> write_u32(B, d.data)
      [] d.kind = "U64" -> write_wide(B, d.bytes)
      [] d.kind = "Other" -> d.bytes
      [] d.kind = "End" -> <<>>

\* DescriptorData::to_raw::<B>(&self, buf) on a buf of avail bytes does not
\* return Ok: buf is shorter than self.len() (Err), or the slot is Other and
\* buf.copy_from_slice(data) is given a buf that is not as long as data
\* (a panic)
DescriptorData_to_raw_fails(d, avail) ==
    \/ avail < DescriptorData_len(d)
    \/ d.kind = "Other" /\ Len(d.bytes) # avail

\* A faulty DescriptorDecoded::decode: id 10 is the xor key whatever the kind
DescriptorDecoded_decode_any_kind(d) ==
    LET Some(tag) == [some |-> TRUE, tag |-> tag, val |-> d.data]
        None == [some |-> FALSE, tag |-> "", val |-> 0] IN
    CASE d.kind = "End" -> [some |-> TRUE, tag |-> "End", val |-> 0]
      [] d.kind \in {"U8", "U16", "U32"} /\ d.id = 10 -> Some("XorKey")
      [] d.kind = "U16" /\ d.id = 9 -> Some("HWID")
      [] d.kind = "U16" /\ d.id = 12 -> Some("VersionId12")
      [] d.kind = "U16" /\ d.id = 13 -> Some("VersionSw")
      [] d.kind = "U16" /\ d.id = 20 -> Some("VersionId20")
      [] d.kind = "U16" /\ d.id = 21 -> Some("VersionRemote")
      [] d.kind = "U32" /\ d.id = 21 -> Some("FirmwareLen")
      [] d.kind = "U32" /\ d.id = 23 -> Some("Firmware2000P1Len")
      [] d.kind = "U32" /\ d.id = 24 -> Some("Firmware2000P2Len")
      [] d.kind = "U32" /\ d.id = 25 -> Some("Firmware2000P3Len")
      [] d.kind = "U32" /\ d.id = 26 -> Some("FirmwareAddr")
      [] OTHER -> None

\* DescriptorDecoded::decode(src): Some(tag(val)) or None
DescriptorDecoded_decode(d) ==
    LET Some(tag) == [some |-> TRUE, tag |-> tag, val |-> d.data]
        None == [some |-> FALSE, tag |-> "", val |-> 0] IN
    CASE d.kind = "End" -> [some |-> TRUE, tag |-> "End", val |-> 0]
      [] d.kind = "U8" /\ d.id = 10 -> Some("XorKey")
      [] d.kind = "U16" /\ d.id = 9 -> Some("HWID")
      [] d.kind = "U16" /\ d.id = 10 -> Some("FirmwareId")
      [] d.kind = "U16" /\ d.id = 12 -> Some("VersionId12")
      [] d.kind = "U16" /\ d.id = 13 -> Some("VersionSw")
      [] d.kind = "U16" /\ d.id = 20 -> Some("VersionId20")
      [] d.kind = "U16" /\ d.id = 21 -> Some("VersionRemote")
      [] d.kind = "U32" /\ d.id = 21 -> Some("FirmwareLen")
      [] d.kind = "U32" /\ d.id = 23 -> Some("Firmware2000P1Len")
      [] d.kind = "U32" /\ d.id = 24 -> Some("Firmware2000P2Len")
      [] d.kind = "U32" /\ d.id = 25 -> Some("Firmware2000P3Len")
      [] d.kind = "U32" /\ d.id = 26 -> Some("FirmwareAddr")
      [] OTHER -> None

-----------------------------------------------------------------------------
(* record/descriptor.rs: DescriptorRecord                                  *)

RECURSIVE DecodeData(_, _, _)
\* the map over desc_type.iter() in DescriptorRecord::new: the slots decoded
\* in order, each from where the one before it stopped
DecodeData(B, types, current) ==
    IF types = <<>> THEN [ok |-> TRUE, descs |-> <<>>, next |-> current]
    ELSE LET d == DescriptorData_from_raw(B, Head(types), current) IN
         IF ~d.ok THEN [ok |-> FALSE, descs |-> <<>>, next |-> current]
         ELSE LET rest == DecodeData(B, Tail(types), d.next) IN
              [ok |-> rest.ok,
               descs |-> IF rest.ok THEN <<d.val>> \o rest.descs ELSE <<>>,
               next |-> rest.next]

\* DescriptorRecord::new::<F, B>(file, lenght, desc_type); overflow_checks
\* is whether the build panics on integer overflow (debug) or wraps (release)
DescriptorRecord_new(B, s, avail, lenght, desc_type, overflow_checks) ==
    LET dl == DescriptorTypeRecord_data_len(desc_type) IN
    IF dl.overflow /\ overflow_checks
    THEN Err("panic: attempt to add with overflow", s)
    ELSE IF dl.val # lenght
    THEN Err("Record Descriptor data is Invalid/Unexpected", s)
    ELSE LET r == read_exact(s, avail, lenght) IN
         IF ~r.ok THEN Eof(r.sum)
         ELSE LET d == DecodeData(B, desc_type, r.buf) IN
              IF ~d.ok
              THEN Err("Descriptor Data is bigger than the data available", r.sum)
              ELSE IF Len(d.next) # 0
              THEN Err("panic: Programing Error on Descriptor Data parsing", r.sum)
              ELSE Ok(Rec("Descriptor", "Simple", 0, 0, d.descs), r.sum)

-----------------------------------------------------------------------------
(* parser.rs: the Parser                                                   *)

\* struct FirmwareData
FirmwareData(id, xor_key, lenght, lenght_left) ==
    [id |-> id, xor_key |-> xor_key, lenght |-> lenght, lenght_left |-> lenght_left]

\* The Parser value `self`
Parser(st, s, dt, fw) ==
    [state |-> st, sum |-> s, descriptor_type |-> dt, firmware |-> fw]

\* What one pass of the loop of read_record leaves: the parser, what the
\* pass returns (when it returns), and whether the loop goes round again;
\* read_type is the DescriptorTypeRecord this pass decoded, if it decoded one.
Pass(self, ret, cont, read_type) ==
    [self |-> [self EXCEPT !.sum = ret.sum], ret |-> ret, cont |-> cont,
     read_type |-> read_type]

NoType == [some |-> FALSE, descs |-> <<>>]

\* A faulty parse_checksum: the sum is taken before the checksum byte is read
parse_checksum_before_byte(s, avail) ==
    LET r == read_exact(s, avail, 1) IN
    IF ~r.ok THEN Eof(r.sum)
    ELSE ChecksumRecord_new(r.buf, s, r.sum)

\* Parser::parse_checksum(&mut self)
parse_checksum(s, avail) ==
    LET r == read_exact(s, avail, 1) IN
    IF ~r.ok THEN Eof(r.sum)
    ELSE ChecksumRecord_new(r.buf, r.sum, r.sum)

\* Parser::parse_filler(&mut self, lenght)
parse_filler(s, avail, lenght) ==
    LET r == read_exact(s, avail, lenght) IN
    IF ~r.ok THEN Eof(r.sum)
    ELSE FillerRecord_new(r.buf, r.sum)

\* Parser::parse_main_header(&mut self, lenght)
parse_main_header(B, s, avail, lenght) == MainRecord_new(B, s, avail, lenght)

\* Parser::parse_text(&mut self, lenght)
parse_text(s, avail, lenght) == TextRecord_new(s, avail, lenght)

\* Parser::parse_descriptor_type(&mut self, lenght)
parse_descriptor_type(B, s, avail, lenght) ==
    DescriptorTypeRecord_new(B, s, avail, lenght)

\* A faulty loop of parse_descriptor_data: the first match is kept
LastDecoded_first(descs, tags) ==
    LET hits == {i \in 1..Len(descs) :
                    /\ DescriptorDecoded_decode(descs[i]).some
                    /\ DescriptorDecoded_decode(descs[i]).tag \in tags} IN
    IF hits = {} THEN [some |-> FALSE, val |-> 0]
    ELSE [some |-> TRUE,
          val |-> descs[CHOOSE i \in hits : \A j \in hits : i <= j].data]

\* The value of the last slot of descs that decodes to one of tags, if any:
\* the `for desc in descriptor.iter()` loop of parse_descriptor_data, which
\* overwrites its Option on every match
LastDecoded(descs, tags) ==
    LET hits == {i \in 1..Len(descs) :
                    /\ DescriptorDecoded_decode(descs[i]).some
                    /\ DescriptorDecoded_decode(descs[i]).tag \in tags} IN
    IF hits = {} THEN [some |-> FALSE, val |-> 0]
    ELSE [some |-> TRUE,
          val |-> descs[CHOOSE i \in hits : \A j \in hits : j <= i].data]

\* A faulty set_firmware: the xor key in use is kept when the record has none
set_firmware_keeps_key(self, r, firmware_id, firmware_lenght, xor_key) ==
    IF ~firmware_id.some
    THEN [self |-> [self EXCEPT !.sum = r.sum],
          ret |-> Err("Firmware Id not found", r.sum)]
    ELSE IF ~firmware_lenght.some
    THEN [self |-> [self EXCEPT !.sum = r.sum, !.firmware.id = firmware_id.val],
          ret |-> Err("Firmware Lenght not found", r.sum)]
    ELSE [self |-> [self EXCEPT !.sum = r.sum,
                       !.firmware = FirmwareData(firmware_id.val,
                           IF xor_key.some THEN xor_key.val ELSE self.firmware.xor_key,
                           firmware_lenght.val, firmware_lenght.val)],
          ret |-> r]

\* The end of parse_descriptor_data: self.firmware is set from the firmware
\* id, the firmware length and the xor key found in the record r
set_firmware(self, r, firmware_id, firmware_lenght, xor_key) ==
    IF ~firmware_id.some
    THEN [self |-> [self EXCEPT !.sum = r.sum],
          ret |-> Err("Firmware Id not found", r.sum)]
    ELSE IF ~firmware_lenght.some
    THEN [self |-> [self EXCEPT !.sum = r.sum, !.firmware.id = firmware_id.val],
          ret |-> Err("Firmware Lenght not found", r.sum)]
    ELSE [self |-> [self EXCEPT !.sum = r.sum,
                       !.firmware = FirmwareData(firmware_id.val,
                           IF xor_key.some THEN xor_key.val ELSE 0,
                           firmware_lenght.val, firmware_lenght.val)],
          ret |-> r]

\* The loop of parse_descriptor_data over the slots of the record r that
\* DescriptorRecord::new returned
find_firmware(self, r) ==
    IF ~r.ok THEN [self |-> [self EXCEPT !.sum = r.sum], ret |-> r]
    ELSE set_firmware(self, r,
            LastDecoded(r.rec.data, {"FirmwareId"}),
            LastDecoded(r.rec.data,
                {"FirmwareLen", "Firmware2000P1Len", "Firmware2000P2Len",
                 "Firmware2000P3Len"}),
            LastDecoded(r.rec.data, {"XorKey"}))

\* Parser::parse_descriptor_data(&mut self, lenght): the parser after the
\* call and what the call returns
parse_descriptor_data(B, self, avail, lenght, overflow_checks) ==
    find_firmware(self, DescriptorRecord_new(B, self.sum, avail, lenght,
                                             self.descriptor_type, overflow_checks))

FONT_ID == 1445
FONT_XOR == 118

\* A faulty parse_firmware_data: the font pass is skipped when there is an
\* xor key
parse_firmware_data_one_pass(self, avail, record_id, record_len) ==
    IF record_id # self.firmware.id
    THEN [self |-> self, ret |-> Err("Firmware id expected", self.sum)]
    ELSE IF self.firmware.lenght_left < record_len
    THEN [self |-> self,
          ret |-> Err("Firmware Chunk is bigger than expected", self.sum)]
    ELSE LET r == read_exact(self.sum, avail, record_len)
             k == IF self.firmware.xor_key # 0 THEN self.firmware.xor_key
                  ELSE IF self.firmware.id = 1445 THEN 118 ELSE 0 IN
         [self |-> [self EXCEPT !.sum = r.sum,
                       !.firmware.lenght_left = self.firmware.lenght_left - record_len],
          ret |-> IF r.ok
                  THEN Ok(FirmwareRecord_new([i \in 1..Len(r.buf) |-> Xor(r.buf[i], k)],
                                             record_id), r.sum)
                  ELSE Eof(r.sum)]

\* A faulty parse_firmware_data: a chunk of any id is taken
parse_firmware_data_any_id(self, avail, record_id, record_len) ==
    IF self.firmware.lenght_left < record_len
    THEN [self |-> self,
          ret |-> Err("Firmware Chunk is bigger than expected", self.sum)]
    ELSE LET r == read_exact(self.sum, avail, record_len) IN
         [self |-> [self EXCEPT !.sum = r.sum,
                       !.firmware.lenght_left = self.firmware.lenght_left - record_len],
          ret |-> IF r.ok THEN Ok(FirmwareRecord_new(r.buf, record_id), r.sum)
                  ELSE Eof(r.sum)]

\* A faulty parse_firmware_data: the chunk length is subtracted without the
\* check against lenght_left
parse_firmware_data_no_check(self, avail, record_id, record_len) ==
    IF record_id # self.firmware.id
    THEN [self |-> self, ret |-> Err("Firmware id expected", self.sum)]
    ELSE LET r == read_exact(self.sum, avail, record_len)
             k == IF self.firmware.id = FONT_ID THEN FONT_XOR ELSE 0 IN
         [self |-> [self EXCEPT !.sum = r.sum,
                       !.firmware.lenght_left = self.firmware.lenght_left - record_len],
          ret |-> IF r.ok
                  THEN Ok(FirmwareRecord_new(
                             [i \in 1..Len(r.buf) |->
                                 Xor(Xor(r.buf[i], self.firmware.xor_key), k)],
                             record_id), r.sum)
                  ELSE Eof(r.sum)]

\* Parser::parse_firmware_data(&mut self, record_id, record_len)
\* parse_firmware_data refusing every chunk once nothing remains
parse_firmware_data_strict(self, avail, record_id, record_len) ==
    IF record_id # self.firmware.id
    THEN [self |-> self, ret |-> Err("Firmware id expected", self.sum)]
    ELSE IF self.firmware.lenght_left = 0 \/ self.firmware.lenght_left < record_len
    THEN [self |-> self,
          ret |-> Err("Firmware Chunk is bigger than expected", self.sum)]
    ELSE LET r == read_exact(self.sum, avail, record_len)
             after == [self EXCEPT !.sum = r.sum,
                                   !.firmware.lenght_left = @ - record_len] IN
         IF ~r.ok THEN [self |-> after, ret |-> Eof(r.sum)]
         ELSE [self |-> after, ret |-> Ok(FirmwareRecord_new(r.buf, record_id), r.sum)]

parse_firmware_data(self, avail, record_id, record_len) ==
    IF record_id # self.firmware.id
    THEN [self |-> self, ret |-> Err("Firmware id expected", self.sum)]
    ELSE IF self.firmware.lenght_left < record_len
    THEN [self |-> self,
          ret |-> Err("Firmware Chunk is bigger than expected", self.sum)]
    ELSE LET left == self.firmware.lenght_left - record_len
             r == read_exact(self.sum, avail, record_len)
             keyed == IF self.firmware.xor_key # 0
                      THEN [i \in 1..Len(r.buf) |-> Xor(r.buf[i], self.firmware.xor_key)]
                      ELSE r.buf
             buf == IF self.firmware.id = FONT_ID
                    THEN [i \in 1..Len(keyed) |-> Xor(keyed[i], FONT_XOR)]
                    ELSE keyed
             after == [self EXCEPT !.sum = r.sum, !.firmware.lenght_left = left] IN
         IF ~r.ok THEN [self |-> after, ret |-> Eof(r.sum)]
         ELSE [self |-> after, ret |-> Ok(FirmwareRecord_new(buf, record_id), r.sum)]

\* A faulty check_firmware_end: an incomplete block passes
check_firmware_end_lenient(self) == self.firmware.lenght_left <= self.firmware.lenght

\* Parser::check_firmware_end(&mut self) returns Ok
check_firmware_end(self) == self.firmware.lenght_left = 0

Arm(st, kind, arm) == [st |-> st, kind |-> kind, arm |-> arm]

\* The patterns of `match (state, record)` in read_record, in the order they
\* are written; "_" is the wildcard
Arms ==
    <<Arm("_", "Checksum", "Checksum"),
      Arm("_", "Filler", "Filler"),
      Arm("TextGlobal", "Text", "Text"),
      Arm("TextGlobal", "MainHeader", "MainHeader"),
      Arm("Main", "DescriptorType", "Main_DescriptorType"),
      Arm("Main", "Text", "Text"),
      Arm("DescriptorType", "DescriptorData", "DescriptorData"),
      Arm("DescriptorData", "DescriptorType", "DescriptorData_DescriptorType"),
      Arm("DescriptorData", "Unknown", "DescriptorData_Unknown"),
      Arm("DescriptorData", "Text", "Text"),
      Arm("DescriptorData", "End", "End"),
      Arm("FirmwareData", "Text", "Text"),
      Arm("FirmwareData", "Unknown", "FirmwareData_Unknown"),
      Arm("FirmwareData", "End", "End"),
      Arm("FirmwareData", "DescriptorType", "FirmwareData_DescriptorType"),
      Arm("_", "_", "Error")>>

\* A match expression: the first arm whose pattern fits
first_match(arms, st, kind) ==
    LET fits == {i \in 1..Len(arms) :
                    /\ arms[i].st \in {"_", st}
                    /\ arms[i].kind \in {"_", kind}} IN
    arms[CHOOSE i \in fits : \A j \in fits : i <= j].arm

\* Faulty matches, which the properties of the parser must tell from the
\* code's: a second MainHeader accepted in Main; no Text arm in FirmwareData;
\* no Text arm in Main; End accepted in Main
match_arm_second_main(st, kind) ==
    first_match(<<Arm("Main", "MainHeader", "MainHeader")>> \o Arms, st, kind)

match_arm_no_text(st, kind) ==
    first_match(<<Arm("FirmwareData", "Text", "Error")>> \o Arms, st, kind)

match_arm_no_main_text(st, kind) ==
    first_match(<<Arm("Main", "Text", "Error")>> \o Arms, st, kind)

match_arm_early_end(st, kind) ==
    first_match(<<Arm("Main", "End", "End")>> \o Arms, st, kind)

\* A faulty match: no Filler arm between a DescriptorType record and its
\* DescriptorData record
match_arm_no_filler(st, kind) ==
    first_match(<<Arm("DescriptorType", "Filler", "Error")>> \o Arms, st, kind)

\* The arm of `match (state, record)` in read_record that a grammar state
\* and a header select
match_arm(st, kind) == first_match(Arms, st, kind)

\* Faulty DescriptorType arms: the DescriptorType record is decoded and
\* dropped in every arm
descriptor_type_arm_dropped(B, self, avail, len, close, store) ==
    LET s2 == [self EXCEPT !.state = "DescriptorType"] IN
    IF close /\ ~check_firmware_end(s2)
    THEN Pass(s2, Err("Firmware Chunk too small", s2.sum), FALSE, NoType)
    ELSE LET r == parse_descriptor_type(B, s2.sum, avail, len) IN
         IF ~r.ok THEN Pass(s2, r, FALSE, NoType)
         ELSE Pass(s2, r, TRUE, [some |-> TRUE, descs |-> r.rec.data])

\* The three DescriptorType arms of read_record: the state is set first, then
\* (close) the firmware block before it is checked to be complete, then the
\* payload is decoded, and (store) the result is kept in self.descriptor_type.
descriptor_type_arm(B, self, avail, len, close, store) ==
    LET s2 == [self EXCEPT !.state = "DescriptorType"] IN
    IF close /\ ~check_firmware_end(s2)
    THEN Pass(s2, Err("Firmware Chunk too small", s2.sum), FALSE, NoType)
    ELSE LET r == parse_descriptor_type(B, s2.sum, avail, len) IN
         IF ~r.ok THEN Pass(s2, r, FALSE, NoType)
         ELSE Pass(IF store THEN [s2 EXCEPT !.descriptor_type = r.rec.data] ELSE s2,
                   r, TRUE, [some |-> TRUE, descs |-> r.rec.data])

\* A faulty End arm: the state is left as it was
end_arm_no_state(self) ==
    IF ~check_firmware_end(self)
    THEN Pass(self, Err("Firmware Chunk too small", self.sum), FALSE, NoType)
    ELSE Pass(self, Ok(Rec("End", "", 0, 0, <<>>), self.sum), FALSE, NoType)

\* The two End arms of read_record
\* The End arms with the check made before the state is assigned
end_arm_check_first(self) ==
    IF ~check_firmware_end(self)
    THEN Pass(self, Err("Firmware Chunk too small", self.sum), FALSE, NoType)
    ELSE Pass([self EXCEPT !.state = "End"],
              Ok(Rec("End", "", 0, 0, <<>>), self.sum), FALSE, NoType)

end_arm(self) ==
    LET s2 == [self EXCEPT !.state = "End"] IN
    IF ~check_firmware_end(s2)
    THEN Pass(s2, Err("Firmware Chunk too small", s2.sum), FALSE, NoType)
    ELSE Pass(s2, Ok(Rec("End", "", 0, 0, <<>>), s2.sum), FALSE, NoType)

\* The two Unknown arms of read_record
unknown_arm(self, avail, id, len) ==
    LET r == parse_firmware_data([self EXCEPT !.state = "FirmwareData"], avail, id, len) IN
    Pass(r.self, r.ret, FALSE, NoType)

\* One pass of the loop of Parser::read_record in a state other than End:
\* parse_record reads the 4 header bytes of the wire record w, then the
\* matched arm reads its payload from w.data.
read_record_pass(B, self, w, overflow_checks) ==
    LET rh == read_exact(self.sum, w.hdr, RECORD_HEADER_LEN)
        h == from_raw(B, rh.buf)
        s1 == [self EXCEPT !.sum = rh.sum]
        arm == match_arm(self.state, h.kind) IN
    IF ~rh.ok THEN Pass(self, Eof(rh.sum), FALSE, NoType)
    ELSE CASE arm = "Checksum" -> Pass(s1, parse_checksum(s1.sum, w.data), FALSE, NoType)
           [] arm = "Filler" -> Pass(s1, parse_filler(s1.sum, w.data, h.len), FALSE, NoType)
           [] arm = "Text" -> Pass(s1, parse_text(s1.sum, w.data, h.len), FALSE, NoType)
           [] arm = "MainHeader" ->
                Pass([s1 EXCEPT !.state = "Main"],
                     parse_main_header(B, s1.sum, w.data, h.len), FALSE, NoType)
           [] arm = "Main_DescriptorType" ->
                descriptor_type_arm(B, s1, w.data, h.len, FALSE, TRUE)
           [] arm = "DescriptorData" ->
                LET r == parse_descriptor_data(B, [s1 EXCEPT !.state = "DescriptorData"],
                                               w.data, h.len, overflow_checks) IN
                Pass(r.self, r.ret, FALSE, NoType)
           [] arm = "DescriptorData_DescriptorType" ->
                descriptor_type_arm(B, s1, w.data, h.len, TRUE, TRUE)
           [] arm = "DescriptorData_Unknown" -> unknown_arm(s1, w.data, h.id, h.len)
           [] arm = "FirmwareData_Unknown" -> unknown_arm(s1, w.data, h.id, h.len)
           [] arm = "End" -> end_arm(s1)
           [] arm = "FirmwareData_DescriptorType" ->
                descriptor_type_arm(B, s1, w.data, h.len, TRUE, FALSE)
           [] OTHER -> Pass(s1, Err("State record received", s1.sum), FALSE, NoType)

\* The number of bytes that pass takes from the stream: the header bytes,
\* then the bytes of the one read_exact the matched arm makes, which comes
\* after the arm's checks of the length, the firmware id and the firmware
\* block; a read_exact takes what the stream holds when that is less.
pass_reads(B, self, w, overflow_checks) ==
    LET rh == read_exact(self.sum, w.hdr, RECORD_HEADER_LEN)
        h == from_raw(B, rh.buf)
        arm == match_arm(self.state, h.kind)
        payload(n) == Min(n, Len(w.data)) IN
    IF ~rh.ok THEN Len(rh.buf)
    ELSE RECORD_HEADER_LEN
         + CASE arm = "Checksum" -> payload(1)
             [] arm \in {"Filler", "Text"} -> payload(h.len)
             [] arm = "MainHeader" -> IF h.len \in {2, 9} THEN payload(h.len) ELSE 0
             [] arm = "Main_DescriptorType" ->
                  IF h.len % 2 # 0 THEN 0 ELSE payload(h.len)
             [] arm \in {"DescriptorData_DescriptorType", "FirmwareData_DescriptorType"} ->
                  IF ~check_firmware_end(self) \/ h.len % 2 # 0 THEN 0 ELSE payload(h.len)
             [] arm = "DescriptorData" ->
                  IF \/ DescriptorTypeRecord_data_len(self.descriptor_type).overflow
                        /\ overflow_checks
                     \/ DescriptorTypeRecord_data_len(self.descriptor_type).val # h.len
                  THEN 0 ELSE payload(h.len)
             [] arm \in {"DescriptorData_Unknown", "FirmwareData_Unknown"} ->
                  IF h.id # self.firmware.id \/ self.firmware.lenght_left < h.len
                  THEN 0 ELSE payload(h.len)
             [] OTHER -> 0

\* The 8 bytes Parser::new reads and Composer::new writes: b"GARMIN" and the
\* version 100 under B
VERSION == 100

Signature(B) == <<71, 65, 82, 77, 73, 78>> \o write_u16(B, VERSION)

-----------------------------------------------------------------------------
(* The streams the Parser is run on                                        *)

MaxCalls == 6      \* read_record calls made on one parser
MaxFwLen == 2      \* the firmware lengths a Descriptor declares are 0..MaxFwLen
MaxResumedCalls == 3   \* read_record calls of a caller that goes on after errors

\* A wire record: the header bytes and the payload bytes the stream holds for
\* it. Fewer than 4 header bytes, or fewer payload bytes than the header
\* announces, is a stream that ends there.
Wire(B, id, len, data) == [hdr |-> write_u16(B, id) \o write_u16(B, len), data |-> data]

EndOfStream == [hdr |-> <<>>, data |-> <<>>]

RECURSIVE FlattenTo(_, _)
\* The concatenation of the first n sequences of ss
FlattenTo(ss, n) == IF n = 0 THEN <<>> ELSE FlattenTo(ss, n - 1) \o ss[n]

Flatten(ss) == FlattenTo(ss, Len(ss))

\* The type payload and the data payload of a descriptor, as
\* DescriptorRecord::record_type_to_raw / record_data_to_raw lay them out
TypePayload(B, descs) ==
    Flatten([i \in 1..Len(descs) |->
                DescriptorType_to_raw(B, DescriptorData_descriptor_type(descs[i]))])

DataPayload(B, descs) ==
    Flatten([i \in 1..Len(descs) |-> DescriptorData_to_raw(B, descs[i])])

OTHER_FW_ID == 16  \* the firmware id the streams' descriptors declare

\* The descriptors the streams carry: firmware id (slot id 10, U16) then
\* firmware length (slot id 21, U32), for every length; and length then id
SampleDescriptors ==
    {<<DData("U16", 10, OTHER_FW_ID, <<>>), DData("U32", 21, len, <<>>)>> : len \in 0..MaxFwLen}
    \cup {<<DData("U32", 21, 1, <<>>), DData("U16", 10, OTHER_FW_ID, <<>>)>>}

ChunkBytes(n) == [i \in 1..n |-> 16 * i + i]

TypeWires(B) ==
    {Wire(B, DESCRIPTOR_TYPE_ID, Len(TypePayload(B, d)), TypePayload(B, d)) : d \in SampleDescriptors}

DataWires(B) ==
    {Wire(B, DESCRIPTOR_DATA_ID, Len(DataPayload(B, d)), DataPayload(B, d)) : d \in SampleDescriptors}

ChunkWires(B) ==
    {Wire(B, OTHER_FW_ID, n, ChunkBytes(n)) : n \in 0..(MaxFwLen + 1)}

\* The Checksum records offered when the reader's sum is s: the byte that
\* brings the sum to 0 after the header and the byte itself, and another
ChecksumWires(B, s) ==
    LET c == wrapping_neg(SumBytes(s, write_u16(B, CHECKSUM_ID) \o write_u16(B, 1))) IN
    {Wire(B, CHECKSUM_ID, 1, <<b>>) : b \in {c, wrapping_neg(s)}}

GlobalWires(B) ==
    {Wire(B, FILLER_ID, 2, <<0, 0>>),
     Wire(B, MAIN_ID, 2, write_u16(B, DEFAULT_HWID)),
     Wire(B, TEXT_ID, 2, <<72, 105>>),
     Wire(B, TEXT_ID, 2, <<72>>),
     Wire(B, END_ID, 0, <<>>),
     EndOfStream}

FixedWires(B) == GlobalWires(B) \cup TypeWires(B) \cup DataWires(B) \cup ChunkWires(B)

FixedWiresLE == FixedWires("LE")

FixedWiresBE == FixedWires("BE")

XOR_KEY == 90      \* the xor key the streams' descriptors declare

\* The descriptors of the firmware streams: firmware id OTHER_FW_ID or the
\* font id and firmware length 0 or MaxFwLen, with and without an xor key
\* (slot id 10, U8) before them; and a descriptor with no firmware id and one
\* with no firmware length
FirmwareDescriptors ==
    {key \o <<DData("U16", 10, id, <<>>), DData("U32", 21, len, <<>>)>> :
        key \in {<<>>, <<DData("U8", 10, XOR_KEY, <<>>)>>},
        id \in {OTHER_FW_ID, FONT_ID}, len \in {0, MaxFwLen}}
    \cup {<<DData("U32", 21, MaxFwLen, <<>>)>>, <<DData("U16", 10, OTHER_FW_ID, <<>>)>>}

\* The firmware streams: MainHeader, the descriptors above as DescriptorType
\* and DescriptorData records, chunks of 0..MaxFwLen bytes for either firmware
\* id, End, and the end of the stream
FirmwareWires(B) ==
    {Wire(B, MAIN_ID, 2, write_u16(B, DEFAULT_HWID)), Wire(B, END_ID, 0, <<>>), EndOfStream}
    \cup {Wire(B, DESCRIPTOR_TYPE_ID, Len(TypePayload(B, d)), TypePayload(B, d)) :
            d \in FirmwareDescriptors}
    \cup {Wire(B, DESCRIPTOR_DATA_ID, Len(DataPayload(B, d)), DataPayload(B, d)) :
            d \in FirmwareDescriptors}
    \cup {Wire(B, id, n, ChunkBytes(n)) : id \in {OTHER_FW_ID, FONT_ID}, n \in 0..MaxFwLen}

FirmwareWiresLE == FirmwareWires("LE")

FirmwareWiresBE == FirmwareWires("BE")

\* The descriptors of the streams whose firmware id is a reserved record id:
\* firmware id OTHER_FW_ID, the Checksum id or the End id, length MaxFwLen
ReservedDescriptors ==
    {<<DData("U16", 10, id, <<>>), DData("U32", 21, MaxFwLen, <<>>)>> :
        id \in {OTHER_FW_ID, CHECKSUM_ID, END_ID}}

\* The payload lengths that a record of the Checksum id or of the End id must
\* not have
BadLengths(id) ==
    IF id = CHECKSUM_ID THEN (0..(MaxFwLen + 1)) \ {1} ELSE 1..MaxFwLen

\* The streams with records of reserved ids: MainHeader, Text, the
\* descriptors above, chunks of OTHER_FW_ID, records of the Checksum id whose
\* length is not 1 and of the End id whose length is not 0, End, and the end
\* of the stream
ReservedWires(B) ==
    {Wire(B, MAIN_ID, 2, write_u16(B, DEFAULT_HWID)), Wire(B, TEXT_ID, 2, <<72, 105>>),
     Wire(B, OTHER_FW_ID, 1, ChunkBytes(1)), Wire(B, END_ID, 0, <<>>), EndOfStream}
    \cup {Wire(B, DESCRIPTOR_TYPE_ID, Len(TypePayload(B, d)), TypePayload(B, d)) :
            d \in ReservedDescriptors}
    \cup {Wire(B, DESCRIPTOR_DATA_ID, Len(DataPayload(B, d)), DataPayload(B, d)) :
            d \in ReservedDescriptors}
    \cup UNION {{Wire(B, id, n, ChunkBytes(n)) : n \in BadLengths(id)} :
                  id \in {CHECKSUM_ID, END_ID}}

ReservedWiresLE == ReservedWires("LE")

ReservedWiresBE == ReservedWires("BE")

\* The descriptors of the firmware block streams: firmware id and one
\* firmware length, for every length; several firmware length slots (21 and
\* the part lengths 23, 24, 25) in either order; two firmware ids; two xor
\* keys
BlockDescriptors ==
    {<<DData("U16", 10, OTHER_FW_ID, <<>>), DData("U32", 21, len, <<>>)>> : len \in 0..MaxFwLen}
    \cup {<<DData("U16", 10, OTHER_FW_ID, <<>>), DData("U32", 21, 1, <<>>),
            DData("U32", id, MaxFwLen, <<>>)>> : id \in {23, 24, 25}}
    \cup {<<DData("U32", 25, MaxFwLen, <<>>), DData("U32", 21, 1, <<>>),
            DData("U16", 10, OTHER_FW_ID, <<>>)>>,
          <<DData("U16", 10, FONT_ID, <<>>), DData("U16", 10, OTHER_FW_ID, <<>>),
            DData("U32", 21, MaxFwLen, <<>>)>>,
          <<DData("U8", 10, 1, <<>>), DData("U8", 10, XOR_KEY, <<>>),
            DData("U16", 10, OTHER_FW_ID, <<>>), DData("U32", 21, MaxFwLen, <<>>)>>}

\* The firmware block streams: MainHeader, Text, the descriptors above, chunks
\* of 0..MaxFwLen + 1 bytes of the declared firmware id, a chunk of another
\* id, a chunk of MaxFwLen bytes after whose first byte the stream ends, End,
\* and the end of the stream
BlockWires(B) ==
    {Wire(B, MAIN_ID, 2, write_u16(B, DEFAULT_HWID)), Wire(B, TEXT_ID, 2, <<72, 105>>),
     Wire(B, FONT_ID, 1, ChunkBytes(1)),
     Wire(B, OTHER_FW_ID, MaxFwLen, ChunkBytes(1)),
     Wire(B, END_ID, 0, <<>>), EndOfStream}
    \cup {Wire(B, DESCRIPTOR_TYPE_ID, Len(TypePayload(B, d)), TypePayload(B, d)) :
            d \in BlockDescriptors}
    \cup {Wire(B, DESCRIPTOR_DATA_ID, Len(DataPayload(B, d)), DataPayload(B, d)) :
            d \in BlockDescriptors}
    \cup {Wire(B, OTHER_FW_ID, n, ChunkBytes(n)) : n \in 0..(MaxFwLen + 1)}
    \cup {Wire(B, DESCRIPTOR_TYPE_ID, 3, <<0, 0, 0>>),
          Wire(B, DESCRIPTOR_TYPE_ID, 2, write_u16(B, 65535))}

BlockWiresLE == BlockWires("LE")

BlockWiresBE == BlockWires("BE")

\* What the stream can hold next when the reader's sum is s
Wires(B, s, atEof) ==
    IF atEof THEN {EndOfStream}
    ELSE IF source = "block"
    THEN (IF B = "LE" THEN BlockWiresLE ELSE BlockWiresBE)
    ELSE IF source = "firmware"
    THEN (IF B = "LE" THEN FirmwareWiresLE ELSE FirmwareWiresBE)
    ELSE IF source = "reserved"
    THEN (IF B = "LE" THEN ReservedWiresLE ELSE ReservedWiresBE) \cup ChecksumWires(B, s)
    ELSE (IF B = "LE" THEN FixedWiresLE ELSE FixedWiresBE) \cup ChecksumWires(B, s)

\* The stream of the grammar scenario: Text, MainHeader, Text, DescriptorType,
\* DescriptorData, a chunk with the declared id and the full declared length,
\* End
ScenarioDescriptor ==
    <<DData("U16", 10, OTHER_FW_ID, <<>>), DData("U32", 21, MaxFwLen, <<>>)>>

Scenario(B) ==
    <<Wire(B, TEXT_ID, 2, <<72, 105>>),
      Wire(B, MAIN_ID, 2, write_u16(B, DEFAULT_HWID)),
      Wire(B, TEXT_ID, 2, <<72, 105>>),
      Wire(B, DESCRIPTOR_TYPE_ID, 4, TypePayload(B, ScenarioDescriptor)),
      Wire(B, DESCRIPTOR_DATA_ID, 6, DataPayload(B, ScenarioDescriptor)),
      Wire(B, OTHER_FW_ID, MaxFwLen, ChunkBytes(MaxFwLen)),
      Wire(B, END_ID, 0, <<>>)>>

-----------------------------------------------------------------------------
(* composer.rs: the Composer, and the record_to_raw encoders it calls      *)

\* WriteCheckSum::write(buf) on a sink that accepts at most cap bytes per
\* write call: the sink takes len bytes, and every byte of buf is folded into
\* sum, whatever part of buf the sink took.
write(s, buf, cap) == [sum |-> SumBytes(s, buf), len |-> Min(cap, Len(buf))]

RECURSIVE write_all(_, _, _, _)
\* Write::write_all(buf) over WriteCheckSum::write: write is called with what
\* is left of buf until nothing is left; a write of no byte is
\* ErrorKind::WriteZero.
write_all(s, out, buf, cap) ==
    IF buf = <<>> THEN [ok |-> TRUE, sum |-> s, out |-> out]
    ELSE LET w == write(s, buf, cap) IN
         IF w.len = 0 THEN [ok |-> FALSE, sum |-> w.sum, out |-> out]
         ELSE write_all(w.sum, out \o Take(buf, w.len), Drop(buf, w.len), cap)

\* A RecordHeader value
Header(kind, id, len) == [kind |-> kind, id |-> id, len |-> len]

\* ChecksumRecord::record_to_raw(data, checksum)
ChecksumRecord_record_to_raw(B, checksum) ==
    LET hdr == header_to_raw(B, Header("Checksum", 0, 0)) IN
    hdr \o <<wrapping_neg(SumBytes(checksum, hdr))>>

\* FillerRecord::record_to_raw
FillerRecord_record_to_raw(B, rec) ==
    header_to_raw(B, Header("Filler", 0, rec.len)) \o [i \in 1..rec.len |-> 0]

\* MainRecord::len
MainRecord_len(rec) == IF rec.variant = "DefaultPartNumber" THEN 9 ELSE 2

\* MainRecord::record_to_raw
MainRecord_record_to_raw(B, rec) ==
    header_to_raw(B, Header("MainHeader", 0, MainRecord_len(rec)))
    \o (IF rec.variant = "DefaultPartNumber"
        THEN write_wide(B, DEFAULT_PART_NUMBER)
        ELSE write_u16(B, DEFAULT_HWID))

\* A faulty TextRecord::record_to_raw: the header counts one byte too many
TextRecord_record_to_raw_long(B, rec) ==
    header_to_raw(B, Header("Text", 0, Len(rec.data) + 1)) \o rec.data

\* TextRecord::record_to_raw
TextRecord_record_to_raw(B, rec) ==
    header_to_raw(B, Header("Text", 0, Len(rec.data))) \o rec.data

\* FirmwareRecord::record_to_raw
FirmwareRecord_record_to_raw(B, rec) ==
    header_to_raw(B, Header("Unknown", rec.id, Len(rec.data))) \o rec.data

\* DescriptorRecord::record_type_to_raw
DescriptorRecord_record_type_to_raw(B, rec) ==
    header_to_raw(B, Header("DescriptorType", 0, Len(TypePayload(B, rec.data))))
    \o TypePayload(B, rec.data)

\* DescriptorRecord::record_data_to_raw
DescriptorRecord_record_data_to_raw(B, rec) ==
    header_to_raw(B, Header("DescriptorData", 0, Len(DataPayload(B, rec.data))))
    \o DataPayload(B, rec.data)

\* DescriptorRecord::record_data_len(&self)
DescriptorRecord_record_data_len(descs) ==
    SumU16([i \in 1..Len(descs) |-> DescriptorData_len(descs[i])]).val

RECURSIVE DataLoopPanics(_, _)
\* The loop of record_data_to_raw over the slots descs, `current` being of
\* avail bytes: desc.to_raw(current).unwrap() panics at some slot
DataLoopPanics(descs, avail) ==
    IF descs = <<>> THEN FALSE
    ELSE \/ DescriptorData_to_raw_fails(Head(descs), avail)
         \/ DataLoopPanics(Tail(descs), avail - DescriptorData_len(Head(descs)))

\* Composer::write_descriptor(descriptor) panics: record_data_to_raw is
\* given the record_data_len() + RECORD_HEADER_LEN bytes that
\* record_type_to_raw left of the buffer
write_descriptor_panics(rec) ==
    DataLoopPanics(rec.data, DescriptorRecord_record_data_len(rec.data))

\* Composer::write_record(record) panics before anything is written
write_record_panics(rec) == rec.type = "Descriptor" /\ write_descriptor_panics(rec)

\* A faulty write_record: the End header carries the running sum as its
\* length
write_record_by_sum(B, s, rec) ==
    CASE rec.type = "Checksum" -> ChecksumRecord_record_to_raw(B, s)
      [] rec.type = "Filler" -> FillerRecord_record_to_raw(B, rec)
      [] rec.type = "MainHeader" -> MainRecord_record_to_raw(B, rec)
      [] rec.type = "Text" -> TextRecord_record_to_raw(B, rec)
      [] rec.type = "Descriptor" ->
            DescriptorRecord_record_type_to_raw(B, rec)
            \o DescriptorRecord_record_data_to_raw(B, rec)
      [] rec.type = "FirmwareData" -> FirmwareRecord_record_to_raw(B, rec)
      [] rec.type = "End" -> header_to_raw(B, Header("Unknown", END_ID, s))

\* The buffer Composer::write_record(record) hands to write_all when the
\* running sum is s
write_record(B, s, rec) ==
    CASE rec.type = "Checksum" -> ChecksumRecord_record_to_raw(B, s)
      [] rec.type = "Filler" -> FillerRecord_record_to_raw(B, rec)
      [] rec.type = "MainHeader" -> MainRecord_record_to_raw(B, rec)
      [] rec.type = "Text" -> TextRecord_record_to_raw(B, rec)
      [] rec.type = "Descriptor" ->
            DescriptorRecord_record_type_to_raw(B, rec)
            \o DescriptorRecord_record_data_to_raw(B, rec)
      [] rec.type = "FirmwareData" -> FirmwareRecord_record_to_raw(B, rec)
      [] rec.type = "End" -> header_to_raw(B, Header("End", 0, 0))

-----------------------------------------------------------------------------
(* The Parser as a state machine: one action per read_record call          *)

\* The parser's fields as the value `self`
Self == Parser(state, sum, descriptor_type, firmware)

\* The build of the specification Spec wraps on integer overflow; its streams
\* never make DescriptorTypeRecord::data_len overflow
SpecOverflowChecks == FALSE

NoResult == [ok |-> TRUE, rec |-> NoRecord, err |-> ""]

\* The history of a parser on which read_record has not been called: the
\* calls made, the mod-256 sum of the bytes of the stream consumed, whether a
\* call failed, the records of each type returned, the last type record read,
\* the length the last Descriptor declared, the chunk bytes returned since,
\* the position in Scenario, and the firmware id and the xor key the last
\* Descriptor declared; the wire records whose header was read and the
\* DescriptorType records decoded; the bytes taken from the stream, and 4 plus
\* the header's length for every wire record whose header was read, both
\* counted from the 8 bytes of Parser::new;
\* and echo: the returned records written, in the order
\* returned, by a Composer of the same byte order to a sink that takes every
\* buffer whole - whether its output agrees so far with the bytes the Parser
\* consumed, what either is ahead of the other by, and the Composer's sum
NoHist ==
    [calls |-> 0, bytes |-> 0, declared |-> 0, failed |-> FALSE,
     n_main |-> 0, n_desc |-> 0, n_end |-> 0,
     last_type |-> <<>>, received |-> 0, scen |-> 0,
     fw_id |-> 0, key |-> 0,
     n_wires |-> 0, n_types |-> 0, consumed |-> 0, framed |-> 0,
     echo |-> [same |-> TRUE, inp |-> <<>>, out |-> <<>>, sum |-> 0]]

InitParser ==
    /\ state = "TextGlobal"
    /\ sum = SumBytes(0, Signature(endian))
    /\ descriptor_type = <<>>
    /\ firmware = FirmwareData(0, 0, 0, 0)
    /\ eof = FALSE
    /\ result = NoResult
    /\ call = <<>>
    /\ hist = [NoHist EXCEPT !.bytes = SumBytes(0, Signature(endian)),
                             !.consumed = Len(Signature(endian)),
                             !.framed = Len(Signature(endian)),
                             !.echo.sum = SumBytes(0, Signature(endian))]

IdleParser ==
    /\ state = "TextGlobal" /\ sum = 0 /\ descriptor_type = <<>>
    /\ firmware = FirmwareData(0, 0, 0, 0) /\ eof = FALSE
    /\ result = NoResult /\ call = <<>>
    /\ hist = NoHist
    /\ source = "none"

NoWrite ==
    [op |-> "none", type |-> "", writes |-> 0, ret |-> "Ok", rec |-> NoRecord,
     id |-> 0, data |-> <<>>, before |-> <<>>, log |-> <<>>]

IdleComposer == c_sum = 0 /\ c_out = <<>> /\ c_cap = 0 /\ c_last = NoWrite

\* No DescriptorRecord::new application yet
NoApplication == [applied |-> FALSE, types |-> <<>>, data |-> <<>>, overflow_checks |-> FALSE]

IdleDesc == d_in = NoApplication /\ d_out = NoResult

\* No codec round trip yet
NoRoundTrip == [op |-> "none", rec |-> NoRecord, bytes |-> <<>>]

IdleCodec == rt_in = NoRoundTrip /\ rt_out = [ok |-> TRUE, rec |-> NoRecord, bytes |-> <<>>]

\* How far the wires consumed so far follow Scenario: the number of its wires
\* consumed when nothing else was, else -1
ScenAfter(scen, B, ws) ==
    IF ws = <<>> THEN scen
    ELSE IF scen >= 0 /\ scen < Len(Scenario(B)) /\ ws[1] = Scenario(B)[scen + 1]
    THEN IF Len(ws) = 1 THEN scen + 1
         ELSE IF scen + 1 < Len(Scenario(B)) /\ ws[2] = Scenario(B)[scen + 2]
         THEN scen + 2 ELSE -1
    ELSE -1

\* The firmware length a returned Descriptor declares: the value of the last
\* of its U32 slots 21, 23, 24 and 25
Declared(descs) ==
    LET hits == {i \in 1..Len(descs) :
                    descs[i].kind = "U32" /\ descs[i].id \in {21, 23, 24, 25}} IN
    IF hits = {} THEN 0 ELSE descs[CHOOSE i \in hits : \A j \in hits : j <= i].data

\* The value of the last slot of descs of the given kind with an id of ids,
\* or none
SlotValue(descs, kind, ids, none) ==
    LET hits == {i \in 1..Len(descs) : descs[i].kind = kind /\ descs[i].id \in ids} IN
    IF hits = {} THEN none ELSE descs[CHOOSE i \in hits : \A j \in hits : j <= i].data

IsPrefix(a, b) == Len(a) <= Len(b) /\ SubSeq(b, 1, Len(a)) = a

\* echo after the Parser consumed the bytes inp and the Composer wrote buf
Echoed(e, inp, buf) ==
    IF ~e.same THEN e
    ELSE IF IsPrefix(e.inp \o inp, e.out \o buf)
    THEN [same |-> TRUE, inp |-> <<>>,
          out |-> Drop(e.out \o buf, Len(e.inp \o inp)), sum |-> SumBytes(e.sum, buf)]
    ELSE IF IsPrefix(e.out \o buf, e.inp \o inp)
    THEN [same |-> TRUE, inp |-> Drop(e.inp \o inp, Len(e.out \o buf)),
          out |-> <<>>, sum |-> SumBytes(e.sum, buf)]
    ELSE [same |-> FALSE, inp |-> <<>>, out |-> <<>>, sum |-> 0]

\* 4 plus the length in the header of a wire record, 0 for a stream that ends
\* in the header
FrameLen(B, w) ==
    IF Len(w.hdr) < RECORD_HEADER_LEN THEN 0
    ELSE RECORD_HEADER_LEN + read_u16(B, Drop(w.hdr, 2))

RECURSIVE SumFrames(_, _)
SumFrames(B, ws) ==
    IF ws = <<>> THEN 0 ELSE FrameLen(B, Head(ws)) + SumFrames(B, Tail(ws))

\* The history after a call that consumed the wires ws, reading `reads`
\* bytes, decoded the type records in types, and returned ret
HistAfter(h, B, ws, types, ret, reads) ==
    LET is(t) == ret.ok /\ ret.rec.type = t IN
    [calls |-> h.calls + 1,
     bytes |-> SumBytes(h.bytes, Flatten([i \in 1..Len(ws) |-> ws[i].hdr \o ws[i].data])),
     declared |-> IF is("Descriptor") THEN Declared(ret.rec.data) ELSE h.declared,
     failed |-> h.failed \/ ~ret.ok,
     n_main |-> IF is("MainHeader") THEN h.n_main + 1 ELSE h.n_main,
     n_desc |-> IF is("Descriptor") THEN h.n_desc + 1 ELSE h.n_desc,
     n_end |-> IF is("End") THEN h.n_end + 1 ELSE h.n_end,
     last_type |-> IF types = <<>> THEN h.last_type ELSE types[Len(types)],
     received |-> IF is("Descriptor") THEN 0
                  ELSE IF is("FirmwareData") THEN h.received + Len(ret.rec.data)
                  ELSE h.received,
     scen |-> ScenAfter(h.scen, B, ws),
     fw_id |-> IF is("Descriptor") THEN SlotValue(ret.rec.data, "U16", {10}, 0) ELSE h.fw_id,
     key |-> IF is("Descriptor") THEN SlotValue(ret.rec.data, "U8", {10}, 0) ELSE h.key,
     n_wires |-> h.n_wires
                 + Cardinality({i \in 1..Len(ws) : Len(ws[i].hdr) = RECORD_HEADER_LEN}),
     n_types |-> h.n_types + Len(types),
     consumed |-> h.consumed + reads,
     framed |-> h.framed + SumFrames(B, ws),
     echo |-> IF ret.ok
              THEN Echoed(h.echo,
                          Flatten([i \in 1..Len(ws) |-> ws[i].hdr \o ws[i].data]),
                          write_record(B, h.echo.sum, ret.rec))
              ELSE h.echo]

\* The assignments that end a read_record call
Return(self, ret, passes, types, reads) ==
    /\ state' = self.state
    /\ sum' = self.sum
    /\ descriptor_type' = self.descriptor_type
    /\ firmware' = self.firmware
    /\ eof' = (eof \/ ret.eof)
    /\ result' = [ok |-> ret.ok, rec |-> ret.rec, err |-> ret.err]
    /\ call' = passes
    /\ source' = source
    /\ hist' = HistAfter(hist, endian, [i \in 1..Len(passes) |-> passes[i].w], types, ret,
                         reads)

\* The DescriptorTypeRecord a pass decoded, as a sequence of none or one
TypesOf(p) == IF p.read_type.some THEN <<p.read_type.descs>> ELSE <<>>

\* The second pass p2 of the loop of read_record, over the wire w2, after the
\* pass p1 over w1 went round: it returns
SecondPass(w1, p1, w2, p2) ==
    /\ ~p2.cont
    /\ Return(p2.self, p2.ret,
              <<[st |-> state, w |-> w1], [st |-> p1.self.state, w |-> w2]>>,
              TypesOf(p1) \o TypesOf(p2),
              pass_reads(endian, Self, w1, SpecOverflowChecks)
              + pass_reads(endian, p1.self, w2, SpecOverflowChecks))

\* The first pass p1 of the loop of read_record, over the wire w1: it returns
\* or the loop goes round once more
FirstPass(w1, p1) ==
    IF ~p1.cont
    THEN Return(p1.self, p1.ret, <<[st |-> state, w |-> w1]>>, TypesOf(p1),
                pass_reads(endian, Self, w1, SpecOverflowChecks))
    ELSE \E w2 \in Wires(endian, p1.self.sum, eof) :
           SecondPass(w1, p1, w2,
                      read_record_pass(endian, p1.self, w2, SpecOverflowChecks))

\* Parser::read_record(&mut self). A pass that buffers a DescriptorType
\* leaves the state DescriptorType, in which every arm returns: the loop
\* makes one pass or two.
read_record ==
    /\ IF state = "End"
       THEN Return(Self, Err("Unable to read after End Record", sum), <<>>, <<>>, 0)
       ELSE \E w1 \in Wires(endian, sum, eof) :
              FirstPass(w1, read_record_pass(endian, Self, w1, SpecOverflowChecks))
    /\ UNCHANGED <<endian, composerVars, descVars, codecVars>>

\* A read_record call by a caller that reads until a call fails, and may go
\* on calling a parser that has reached End
ReadRecord ==
    /\ hist.calls < MaxCalls
    /\ (hist.failed => state = "End")
    /\ read_record

\* A read_record call by a caller that goes on after a failed call
ReadRecordAfterError ==
    /\ hist.calls < MaxResumedCalls
    /\ hist.failed /\ state # "End"
    /\ read_record

Init ==
    /\ endian \in {"LE", "BE"}
    /\ InitParser
    /\ source = "grammar"
    /\ IdleComposer
    /\ IdleDesc
    /\ IdleCodec

Next == ReadRecord

Spec == Init /\ [][Next]_vars

\* The Parser with a caller that does not stop at an error
NextResumed == ReadRecord \/ ReadRecordAfterError

SpecResumed == Init /\ [][NextResumed]_vars

\* The Parser over the firmware streams
InitFirmware ==
    /\ endian \in {"LE", "BE"}
    /\ InitParser
    /\ source = "firmware"
    /\ IdleComposer
    /\ IdleDesc
    /\ IdleCodec

NextFirmware == ReadRecord

SpecFirmware == InitFirmware /\ [][NextFirmware]_vars

\* A faulty Parser::new: the version is not looked at
Parser_new_any_version(B, avail) ==
    LET r == read_exact(0, avail, 8) IN
    IF ~r.ok THEN [ok |-> FALSE, err |-> "UnexpectedEof", sum |-> r.sum]
    ELSE IF Take(r.buf, 6) # <<71, 65, 82, 77, 73, 78>>
    THEN [ok |-> FALSE, err |-> "Invalid/Unknown Header Signature", sum |-> r.sum]
    ELSE [ok |-> TRUE, err |-> "", sum |-> r.sum]

\* Parser::new(file) on a file that holds the bytes avail: whether Ok(Self)
\* is returned, and the sum of the ReadCheckSum inside
Parser_new(B, avail) ==
    LET r == read_exact(0, avail, 8) IN
    IF ~r.ok THEN [ok |-> FALSE, err |-> "UnexpectedEof", sum |-> r.sum]
    ELSE IF Take(r.buf, 6) # <<71, 65, 82, 77, 73, 78>>
    THEN [ok |-> FALSE, err |-> "Invalid/Unknown Header Signature", sum |-> r.sum]
    ELSE IF read_u16(B, Drop(r.buf, 6)) # VERSION
    THEN [ok |-> FALSE, err |-> "Invalid/Unknown Header Version", sum |-> r.sum]
    ELSE [ok |-> TRUE, err |-> "", sum |-> r.sum]

MaxOpenedCalls == 2    \* read_record calls made on a parser that was opened

\* The 8 bytes Composer::new writes under byte order E
ComposerNewBytes(E) == write_all(0, <<>>, Signature(E), 8).out

\* The first bytes of the streams a Parser is opened on, each with where it
\* comes from: the bytes of a Composer::new under either byte order, whole or
\* cut short; with one byte of "GARMIN" changed; with another version
Openings ==
    {[from |-> E, bytes |-> ComposerNewBytes(E)] : E \in {"LE", "BE"}}
    \cup {[from |-> "short", bytes |-> Take(ComposerNewBytes(E), n)] :
            E \in {"LE", "BE"}, n \in 0..7}
    \cup {[from |-> "magic", bytes |-> [ComposerNewBytes(E) EXCEPT ![i] = @ + 32]] :
            E \in {"LE", "BE"}, i \in 1..6}
    \cup {[from |-> "version", bytes |-> <<71, 65, 82, 77, 73, 78>> \o write_u16(E, v)] :
            E \in {"LE", "BE"}, v \in {0, 99, 101, 356}}

\* The assignments of a Parser::new that returned r
Opened(o, r) ==
    /\ rt_in' = [op |-> "new", rec |-> Rec("Opening", o.from, 0, 0, <<>>), bytes |-> o.bytes]
    /\ rt_out' = [ok |-> r.ok, rec |-> NoRecord, bytes |-> <<>>]
    /\ state' = "TextGlobal"
    /\ sum' = IF r.ok THEN r.sum ELSE 0
    /\ hist' = IF r.ok
               THEN [NoHist EXCEPT !.bytes = r.sum, !.consumed = 8, !.framed = 8,
                                   !.echo.sum = r.sum]
               ELSE NoHist
    /\ source' = IF r.ok THEN "grammar" ELSE "none"
    /\ UNCHANGED <<endian, descriptor_type, firmware, eof, result, call,
                   composerVars, descVars>>

\* Parser::<_, B>::new(file)
ParserNew ==
    /\ rt_in.op = "none"
    /\ \E o \in Openings : Opened(o, Parser_new(endian, o.bytes))

\* Parser::read_record on the Parser that Parser::new returned
ReadRecordOpened ==
    /\ rt_in.op = "new" /\ rt_out.ok
    /\ hist.calls < MaxOpenedCalls
    /\ ReadRecord

InitOpen ==
    /\ endian \in {"LE", "BE"}
    /\ IdleParser
    /\ IdleComposer
    /\ IdleDesc
    /\ IdleCodec

NextOpen == ParserNew \/ ReadRecordOpened

SpecOpen == InitOpen /\ [][NextOpen]_vars

\* The Parser over the firmware block streams, with a caller that may go on
\* after a failed call
InitBlock ==
    /\ endian \in {"LE", "BE"}
    /\ InitParser
    /\ source = "block"
    /\ IdleComposer
    /\ IdleDesc
    /\ IdleCodec

MaxBlockCalls == 5   \* read_record calls made on the parser of SpecBlock
MaxBlockResumed == 2 \* of which calls of a caller that goes on after errors

\* Parser::read_record, called on the stream of firmware blocks
ReadBlockRecord ==
    /\ hist.calls < MaxBlockCalls
    /\ (hist.failed => state = "End")
    /\ read_record

\* Parser::read_record, called again after a call that failed before End
ReadBlockRecordAfterError ==
    /\ hist.calls < MaxBlockResumed
    /\ hist.failed /\ state # "End"
    /\ read_record

NextBlock == ReadBlockRecord \/ ReadBlockRecordAfterError

SpecBlock == InitBlock /\ [][NextBlock]_vars

\* The Parser over the streams with records of reserved ids
InitReserved ==
    /\ endian \in {"LE", "BE"}
    /\ InitParser
    /\ source = "reserved"
    /\ IdleComposer
    /\ IdleDesc
    /\ IdleCodec

NextReserved == ReadRecord

SpecReserved == InitReserved /\ [][NextReserved]_vars

-----------------------------------------------------------------------------
(* Properties of Parser::read_record                                       *)

GrammarStates == {"TextGlobal", "Main", "DescriptorType", "DescriptorData", "FirmwareData"}

\* The header kind of a wire record, "None" for a stream that ends in it
WireKind(w) ==
    IF Len(w.hdr) = RECORD_HEADER_LEN THEN from_raw(endian, w.hdr).kind ELSE "None"

\* The length the header of a wire record announces
WireLen(w) == from_raw(endian, w.hdr).len

\* The last call matched a header of kind k in a grammar state of S
Matched(S, k) == \E i \in 1..Len(call) : call[i].st \in S /\ WireKind(call[i].w) = k

\* The last call returned an error and no record
Failed == ~result.ok /\ result.rec.type = "None"

\* The last call returned a record of type t
Returned(t) == result.ok /\ result.rec.type = t

ListedTransitions ==
    (GrammarStates \X {"Checksum", "Filler"})
    \cup ({"TextGlobal"} \X {"Text", "MainHeader"})
    \cup ({"Main"} \X {"Text", "DescriptorType"})
    \cup ({"DescriptorType"} \X {"DescriptorData"})
    \cup ({"DescriptorData"} \X {"DescriptorType", "Text", "Unknown", "End"})
    \cup ({"FirmwareData"} \X {"Text", "Unknown", "DescriptorType", "End"})

\* C1: a (grammar state, header kind) pair that is not one of the listed
\* transitions ends the call with an error and no record.
C1_OnlyListedTransitions ==
    \A i \in 1..Len(call) :
        (/\ WireKind(call[i].w) # "None"
         /\ <<call[i].st, WireKind(call[i].w)>> \notin ListedTransitions)
        => (i = Len(call) /\ Failed)

\* C1 happens: a second MainHeader, and an Unknown header before the first
\* Descriptor, were refused.
C1_Witness ==
    /\ hist.n_main = 1 /\ hist.n_desc = 0 /\ Failed
    /\ (Matched({"Main"}, "MainHeader") \/ Matched({"Main"}, "Unknown"))
    /\ result.err = "State record received"

\* The first header of the next call, matched in the parser's state
FirstKind == WireKind(call'[1].w)

\* The next call closes, or adds a chunk to, a firmware block
InBlock == call' # <<>> /\ state \in {"DescriptorData", "FirmwareData"} /\ ~hist.failed

C2_Step ==
    /\ (InBlock /\ FirstKind = "Unknown"
            /\ hist.received + WireLen(call'[1].w) > hist.declared)
       => (~result'.ok /\ hist'.received = hist.received /\ Len(call') = 1)
    /\ (InBlock /\ FirstKind \in {"DescriptorType", "End"})
       => /\ hist.received <= hist.declared
          /\ (result'.err = "Firmware Chunk too small") <=> (hist.received < hist.declared)
          /\ (hist.received < hist.declared) => (~result'.ok /\ Len(call') = 1)
          /\ (FirstKind = "End" /\ hist.received = hist.declared)
             => (result'.ok /\ result'.rec.type = "End")

\* C2: in a firmware block whose Descriptor declared length L, a chunk that
\* takes the total of the chunk lengths above L fails at once, and closing the
\* block by a DescriptorType header or by End succeeds when the chunk lengths
\* received sum to L and fails when they sum to less.
C2_FirmwareLengthAccounting == [][C2_Step]_vars

\* C2 happens: a block of the full declared length was closed by End.
C2_Witness ==
    /\ Returned("End") /\ Matched({"FirmwareData"}, "End")
    /\ hist.declared = MaxFwLen /\ hist.received = MaxFwLen

\* The last header the last call read was a Checksum header whose payload
\* byte the stream holds
ReadChecksum ==
    /\ call # <<>>
    /\ WireKind(call[Len(call)].w) = "Checksum"
    /\ Len(call[Len(call)].w.data) = 1

\* C3: a Checksum record is accepted if and only if the mod-256 sum of every
\* byte of the stream read so far, from the signature through the checksum
\* byte itself, is 0.
C3_ChecksumAcceptedIffSumZero ==
    ReadChecksum => (Returned("Checksum") <=> hist.bytes = 0)

\* C3 happens: after other records, one checksum byte was accepted.
C3_Witness ==
    ReadChecksum /\ Returned("Checksum") /\ hist.calls >= 3 /\ state = "DescriptorData"

\* The slots a returned Descriptor was decoded against
SlotTypes(rec) == [i \in 1..Len(rec.data) |-> DescriptorData_descriptor_type(rec.data[i])]

\* C5: every Descriptor returned is decoded, slot by slot, against the
\* DescriptorType record most recently read from the stream.
C5_DecodedAgainstLatestType ==
    Returned("Descriptor") => SlotTypes(result.rec) = hist.last_type

\* C5 in the first block and in a block whose DescriptorType arrived in state
\* DescriptorData: there the most recently read type is the one used.
C5_Witness ==
    /\ Returned("Descriptor") /\ hist.n_desc = 2
    /\ Matched({"DescriptorData"}, "DescriptorType")
    /\ SlotTypes(result.rec) = hist.last_type

\* A well-formed Text record matched in a grammar state of S is returned as
\* Record::Text and leaves the state as it was
TextAcceptedIn(S) ==
    \A i \in 1..Len(call) :
        (/\ call[i].st \in S
         /\ WireKind(call[i].w) = "Text"
         /\ Len(call[i].w.data) = WireLen(call[i].w))
        => (Returned("Text") /\ state = call[i].st)

\* C7 as stated: a Text record is accepted in every grammar state before End,
\* DescriptorType included.
C7_TextAcceptedBeforeEnd == TextAcceptedIn(GrammarStates)

\* C7: a Text record is accepted in the grammar states TextGlobal, Main,
\* DescriptorData and FirmwareData, is returned as Record::Text, and leaves
\* the grammar state unchanged.
C7_TextAcceptedOutsideDescriptor == TextAcceptedIn(GrammarStates \ {"DescriptorType"})

\* C7 happens: a Text record read in state FirmwareData was returned.
C7_Witness ==
    Returned("Text") /\ Matched({"FirmwareData"}, "Text") /\ state = "FirmwareData"

C8_Step ==
    hist.n_end >= 1
    => /\ state = "End" /\ state' = "End"
       /\ ~result'.ok /\ result'.rec.type = "None"
       /\ call' = <<>> /\ sum' = sum /\ hist'.bytes = hist.bytes
       /\ hist'.n_end = 1

\* C8: once End has been returned, every later call returns an error, reads
\* no byte from the stream and leaves the parser in state End; End is
\* returned at most once.
C8_EndIsAbsorbing == [][C8_Step]_vars

\* C8 happens: two calls were made after the one that returned End.
C8_Witness ==
    /\ hist.n_end = 1 /\ state = "End" /\ call = <<>>
    /\ result.err = "Unable to read after End Record"
    /\ hist.calls >= 5

\* What read_record returns once the first n wire records of Scenario have
\* been consumed; no call ends with the DescriptorType record alone consumed
ScenarioReturns ==
    [n \in 1..7 |-> <<"Text", "MainHeader", "Text", "Never", "Descriptor",
                      "FirmwareData", "End">>[n]]

\* C9: on the stream Text, MainHeader, Text, DescriptorType, DescriptorData,
\* a chunk with the declared id and the full declared length, End, successive
\* calls return Text, MainHeader, Text, Descriptor, FirmwareData, End; and a
\* DescriptorData header matched in a state other than DescriptorType makes
\* the call fail.
C9_ScenarioAndEarlyData ==
    /\ (hist.scen >= 1 /\ call # <<>>)
       => /\ Returned(ScenarioReturns[hist.scen])
          /\ hist.calls = (IF hist.scen >= 5 THEN hist.scen - 1 ELSE hist.scen)
    /\ Matched(GrammarStates \ {"DescriptorType"}, "DescriptorData") => Failed

\* C9 happens: the whole scenario was read, through End.
C9_Witness ==
    hist.scen = 7 /\ Returned("End") /\ hist.calls = 6 /\ ~hist.failed

\* C10: in a sequence of records accepted up to and including End (no call
\* before End failed: the caller of Spec stops at the first failure), exactly
\* one MainHeader was returned, before the first Descriptor, and at least one
\* Descriptor was returned before End; End is refused in TextGlobal, Main and
\* DescriptorType.
C10_OneMainThenDescriptorThenEnd ==
    /\ hist.n_main <= 1
    /\ hist.n_desc >= 1 => hist.n_main = 1
    /\ hist.n_end >= 1 => (hist.n_main = 1 /\ hist.n_desc >= 1)
    /\ Matched({"TextGlobal", "Main", "DescriptorType"}, "End") => Failed

\* C10 happens: End was returned after two firmware blocks.
C10_Witness ==
    Returned("End") /\ hist.n_main = 1 /\ hist.n_desc = 2 /\ ~hist.failed

\* The wire record the last pass of the next call read
LastWire == call'[Len(call')].w

\* The next call ends by reading a Checksum record whose byte brings the sum
\* of the stream to 0, or a Filler record of zero bytes
ValidChecksum ==
    /\ WireKind(LastWire) = "Checksum" /\ Len(LastWire.data) = 1
    /\ hist'.bytes = 0

ValidFiller ==
    /\ WireKind(LastWire) = "Filler"
    /\ Len(LastWire.data) = WireLen(LastWire)
    /\ \A i \in 1..Len(LastWire.data) : LastWire.data[i] = 0

C11_Step ==
    (call' # <<>> /\ (ValidChecksum \/ ValidFiller))
    => /\ result'.ok
       /\ result'.rec.type = WireKind(LastWire)
       /\ state' = call'[Len(call')].st
       /\ firmware' = firmware
       /\ Len(call') = 1 => (state' = state /\ descriptor_type' = descriptor_type)
       /\ Len(call') = 2 => descriptor_type' \in {descriptor_type, hist'.last_type}

\* C11: in every grammar state other than End a valid Checksum record and a
\* Filler record of zeros are returned as Record::Checksum / Record::Filler,
\* and reading them leaves the grammar state, the buffered DescriptorType and
\* the firmware reassembly state as they were.
C11_ChecksumFillerFrame == [][C11_Step]_vars

\* C11 happens: a Filler record was returned by a call that started between a
\* DescriptorType record and its DescriptorData record.
C11_Witness ==
    /\ Returned("Filler") /\ Len(call) = 1 /\ call[1].st = "DescriptorType"
    /\ state = "DescriptorType" /\ hist.n_desc = 1

\* The id the header of a wire record carries
WireId(w) == from_raw(endian, w.hdr).id

C12_Step ==
    (/\ InBlock /\ FirstKind = "Unknown"
     /\ WireId(call'[1].w) # hist.fw_id)
    => /\ ~result'.ok /\ result'.rec.type = "None"
       /\ Len(call') = 1
       /\ firmware'.lenght_left = firmware.lenght_left
       /\ sum' = SumBytes(sum, call'[1].w.hdr)

\* C12: in states DescriptorData and FirmwareData an Unknown header whose id
\* is not the firmware id the last Descriptor declared makes the call fail;
\* the remaining length is as before and only the 4 header bytes were read.
C12_ForeignChunkRefused == [][C12_Step]_vars

\* C12 happens: after a chunk of the declared id, a chunk of another id that
\* would have fitted the remaining length was refused.
C12_Witness ==
    /\ ~result.ok /\ result.err = "Firmware id expected"
    /\ Len(call) = 1 /\ call[1].st = "FirmwareData"
    /\ Len(call[1].w.data) = 1 /\ hist.received = 1
    /\ firmware.lenght_left = 1

\* The last wire record the last call read
ReadWire == call[Len(call)].w

\* The slots of the DescriptorData record the last call read, decoded against
\* the buffered DescriptorType
ReadSlots ==
    DescriptorRecord_new(endian, 0, ReadWire.data, WireLen(ReadWire),
                         descriptor_type, FALSE)

\* The last call decoded a DescriptorData record
DecodedDescriptor ==
    /\ call # <<>> /\ call[Len(call)].st = "DescriptorType"
    /\ WireKind(ReadWire) = "DescriptorData"
    /\ ReadSlots.ok

FirmwareIdSlots == {10}

FirmwareLenSlots == {21, 23, 24, 25}

XorKeySlots == {10}

HasSlot(descs, kind, ids) ==
    \E i \in 1..Len(descs) : descs[i].kind = kind /\ descs[i].id \in ids

\* C13: when a Descriptor is decoded the call fails if no slot is a firmware
\* id or no slot is a firmware length; otherwise the firmware state is the
\* decoded id, total length = remaining length = the decoded length, and the
\* decoded xor key, 0 when the Descriptor has no xor-key slot.
C13_FirmwareStateFromDescriptor ==
    DecodedDescriptor
    => /\ Returned("Descriptor")
          <=> (/\ HasSlot(ReadSlots.rec.data, "U16", FirmwareIdSlots)
               /\ HasSlot(ReadSlots.rec.data, "U32", FirmwareLenSlots))
       /\ Returned("Descriptor")
          => /\ result.rec.data = ReadSlots.rec.data
             /\ firmware =
                  FirmwareData(SlotValue(result.rec.data, "U16", FirmwareIdSlots, 0),
                               SlotValue(result.rec.data, "U8", XorKeySlots, 0),
                               SlotValue(result.rec.data, "U32", FirmwareLenSlots, 0),
                               SlotValue(result.rec.data, "U32", FirmwareLenSlots, 0))

\* C13 happens: the second Descriptor of a stream, with no xor-key slot, was
\* decoded and left the xor key 0.
C13_Witness ==
    /\ DecodedDescriptor /\ Returned("Descriptor") /\ hist.n_desc = 2
    /\ ~HasSlot(result.rec.data, "U8", XorKeySlots)
    /\ firmware.xor_key = 0 /\ firmware.id = FONT_ID

\* C14: each byte of a returned firmware chunk is the wire byte XOR k XOR f,
\* with k the xor key the active Descriptor declared (0 when it declared
\* none) and f = 0x76 when the active firmware id is 0x05A5, else 0.
C14_ChunkBytesXored ==
    Returned("FirmwareData")
    => /\ Len(result.rec.data) = Len(call[1].w.data)
       /\ \A i \in 1..Len(result.rec.data) :
             result.rec.data[i] =
                Xor(Xor(call[1].w.data[i], hist.key),
                    IF hist.fw_id = 1445 THEN 118 ELSE 0)

\* C14 happens: a chunk of the font firmware under an xor key was returned,
\* both passes applied.
C14_Witness ==
    /\ Returned("FirmwareData") /\ hist.key = XOR_KEY /\ hist.fw_id = 1445
    /\ Len(result.rec.data) = MaxFwLen
    /\ result.rec.data[1] = Xor(Xor(call[1].w.data[1], XOR_KEY), 118)
    /\ result.rec.data[1] # call[1].w.data[1]

C15_Step == hist.failed => ~result'.ok

\* C15: once a read_record call has returned an error, every later call on
\* the same parser returns an error.
C15_ErrorsAreFinal == [][C15_Step]_vars

\* C15 happens: the call before failed, and the next call on the same parser
\* returned a Text record.
C15_Witness ==
    /\ hist.failed /\ hist.calls = 2 /\ Returned("Text")
    /\ state = "TextGlobal"

\* The records returned so far, written by a Composer in the order
\* returned, gave back the bytes the Parser consumed
EchoIsInput == hist.echo.same /\ hist.echo.inp = <<>> /\ hist.echo.out = <<>>

\* C17: for a stream the Parser accepts up to and including End, writing the
\* records it returned, in the order returned, to a Composer of the same byte
\* order gives a stream byte-for-byte identical to the input.
C17_ComposedEqualsParsed == (Returned("End") /\ ~hist.failed) => EchoIsInput

\* C17 happens: a stream of one firmware block was accepted through End, and
\* the records returned compose to the bytes consumed.
C17_Witness ==
    /\ Returned("End") /\ ~hist.failed /\ EchoIsInput
    /\ hist.n_desc = 1 /\ hist.received = MaxFwLen /\ hist.calls = MaxCalls

\* The FirmwareRecord values of the firmware streams: EmptyChunk, and Chunk
\* with 0..MaxFwLen bytes, for either firmware id
FirmwareRecords ==
    {Rec("FirmwareData", "EmptyChunk", id, 0, <<>>) : id \in {OTHER_FW_ID, FONT_ID}}
    \cup {Rec("FirmwareData", "Chunk", id, 0, ChunkBytes(n)) :
            id \in {OTHER_FW_ID, FONT_ID}, n \in 0..MaxFwLen}

\* The last call read the encoding of the FirmwareRecord r right after a
\* Descriptor that declared r's id and r's length
ReadBack(r) ==
    /\ Len(call) = 1 /\ call[1].st = "DescriptorData"
    /\ call[1].w.hdr \o call[1].w.data = FirmwareRecord_record_to_raw(endian, r)
    /\ hist.fw_id = r.id /\ hist.declared = Len(r.data)

\* C19: a FirmwareRecord r written after a Descriptor that declares r's id
\* and r's length, with or without an xor key, is read back by the Parser as
\* a FirmwareData record equal to r.
C19_FirmwareReadBack ==
    \A r \in FirmwareRecords :
        ReadBack(r) => (Returned("FirmwareData") /\ result.rec = r)

\* C19 for the non-empty chunks with no xor key and a firmware id other than
\* the font id, and for EmptyChunk
C19_PlainChunks ==
    \A r \in FirmwareRecords :
        (/\ ReadBack(r) /\ hist.key = 0 /\ hist.fw_id # FONT_ID
         /\ (r.variant = "Chunk" => r.data # <<>>))
        => (Returned("FirmwareData") /\ result.rec = r)

\* C19 happens: a chunk of MaxFwLen bytes was read back under an xor key.
C19_Witness ==
    /\ \E r \in FirmwareRecords : ReadBack(r) /\ Len(r.data) = MaxFwLen
    /\ Returned("FirmwareData") /\ hist.key = XOR_KEY

\* The id and the length a wire record's header carries
RawId(w) == read_u16(endian, w.hdr)

RawLen(w) == read_u16(endian, Drop(w.hdr, 2))

\* A record of the Checksum id whose length is not 1, or of the End id whose
\* length is not 0
BadReserved(w) ==
    /\ Len(w.hdr) = RECORD_HEADER_LEN
    /\ \/ RawId(w) = CHECKSUM_ID /\ RawLen(w) # 1
       \/ RawId(w) = END_ID /\ RawLen(w) # 0

\* C22: in every grammar state and for every active firmware id, a call that
\* reads a record of id 1 with length other than 1, or of id 0xFFFF with
\* length other than 0, fails and returns no record.
C22_ReservedLengthsRefused ==
    (\E i \in 1..Len(call) : BadReserved(call[i].w)) => Failed

\* C22 while the firmware id the last Descriptor declared is neither the
\* Checksum id nor the End id
C22_OtherFirmwareId ==
    hist.fw_id \notin {CHECKSUM_ID, END_ID} => C22_ReservedLengthsRefused

\* C22 happens: in state FirmwareData, under firmware id OTHER_FW_ID, a
\* record of the Checksum id and length MaxFwLen was refused.
C22_Witness ==
    /\ Len(call) = 1 /\ call[1].st = "FirmwareData" /\ BadReserved(call[1].w)
    /\ RawId(call[1].w) = CHECKSUM_ID /\ RawLen(call[1].w) = MaxFwLen
    /\ hist.fw_id = OTHER_FW_ID /\ Failed

-----------------------------------------------------------------------------
(* The Composer as a state machine                                         *)

MaxWrites == 3     \* write_record / write_record_raw calls made on one composer

\* What the sinks accept per write call: one byte, three bytes, or any buffer
\* whole (no buffer the Composer writes is longer than 65535 + 8 bytes)
SinkCaps == {1, 3, 65543}

\* The ASCII bytes of "Sample File"
SampleText == <<83, 97, 109, 112, 108, 101, 32, 70, 105, 108, 101>>

\* The records the Composer is given
ComposerRecords ==
    <<Rec("Checksum", "Simple", 0, 0, <<>>),
      Rec("Filler", "Zeros", 0, 2, <<>>),
      Rec("MainHeader", "DefaultHWID", 0, 0, <<>>),
      Rec("MainHeader", "DefaultPartNumber", 0, 0, <<>>),
      Rec("Text", "Simple", 0, 0, <<72, 105>>),
      Rec("Text", "Simple", 0, 0, SampleText),
      Rec("Text", "Blob", 0, 0, <<255>>),
      Rec("Descriptor", "Simple", 0, 0, ScenarioDescriptor),
      Rec("FirmwareData", "Chunk", OTHER_FW_ID, 0, ChunkBytes(MaxFwLen)),
      Rec("End", "", 0, 0, <<>>)>>

\* Composer::new(file): the signature and the version are written
InitComposer ==
    /\ c_cap \in SinkCaps
    /\ c_sum = write_all(0, <<>>, Signature(endian), c_cap).sum
    /\ c_out = write_all(0, <<>>, Signature(endian), c_cap).out
    /\ c_last = NoWrite

\* The assignments of a Composer write of the buffer buf for the record rec
Written(op, rec, buf) ==
    /\ c_sum' = write_all(c_sum, c_out, buf, c_cap).sum
    /\ c_out' = write_all(c_sum, c_out, buf, c_cap).out
    /\ c_last' = [op |-> op, type |-> rec.type, writes |-> c_last.writes + 1,
                  ret |-> "Ok", rec |-> rec, id |-> 0, data |-> <<>>,
                  before |-> c_out, log |-> Append(c_last.log, rec)]
    /\ UNCHANGED <<endian, c_cap, parserVars, descVars, codecVars>>

\* A Composer write that panicked before its write_all
Panicked(op, rec) ==
    /\ c_last' = [op |-> op, type |-> rec.type, writes |-> c_last.writes + 1,
                  ret |-> "panic", rec |-> rec, id |-> 0, data |-> <<>>,
                  before |-> c_out, log |-> Append(c_last.log, rec)]
    /\ UNCHANGED <<endian, c_sum, c_out, c_cap, parserVars, descVars, codecVars>>

\* self.write_record(rec), to its return or its panic
WrittenRecord(rec) ==
    IF write_record_panics(rec)
    THEN Panicked("write_record", rec)
    ELSE Written("write_record", rec, write_record(endian, c_sum, rec))

\* Composer::write_record(&mut self, record)
WriteRecord ==
    /\ c_last.writes < MaxWrites
    /\ c_last.ret = "Ok"
    /\ \E i \in 1..Len(ComposerRecords) : WrittenRecord(ComposerRecords[i])

\* The end of write_record_raw: after write_record_header left the sum and
\* the output of h, the data goes to a write_all of its own
WrittenRaw(h, id, data) ==
    /\ h.ok
    /\ c_sum' = write_all(h.sum, h.out, data, c_cap).sum
    /\ c_out' = write_all(h.sum, h.out, data, c_cap).out
    /\ c_last' = [op |-> "write_record_raw", type |-> "Unknown",
                  writes |-> c_last.writes + 1, ret |-> "Ok", rec |-> NoRecord,
                  id |-> id, data |-> data, before |-> c_out,
                  log |-> Append(c_last.log, Rec("Raw", "", id, 0, data))]
    /\ UNCHANGED <<endian, c_cap, parserVars, descVars, codecVars>>

\* The header write_record_raw builds: RecordHeader::Unknown with the id and
\* data.len() as u16, the length of data truncated to 16 bits
write_record_raw_header(B, id, data) ==
    header_to_raw(B, Header("Unknown", id, Len(data) % 65536))

\* self.write_record_raw(id, data): write_record_header, then write_all
write_record_raw(id, data) ==
    WrittenRaw(write_all(c_sum, c_out, write_record_raw_header(endian, id, data), c_cap),
               id, data)

\* Composer::write_record_raw(&mut self, id, data)
WriteRecordRaw ==
    /\ c_last.writes < MaxWrites
    /\ c_last.ret = "Ok"
    /\ \E id \in {CHECKSUM_ID, OTHER_FW_ID}, n \in 0..MaxFwLen :
          write_record_raw(id, ChunkBytes(n))

InitC ==
    /\ endian \in {"LE", "BE"}
    /\ IdleParser
    /\ InitComposer
    /\ IdleDesc
    /\ IdleCodec

NextC == WriteRecord \/ WriteRecordRaw

SpecComposer == InitC /\ [][NextC]_vars

\* C4: after write_record(Record::Checksum) the Composer's running sum is 0
\* and the mod-256 sum of all the bytes emitted since the start of the stream
\* is 0; on a fresh Composer the checksum byte is 0xDC.
C4_SumZeroAfterChecksum ==
    (c_last.op = "write_record" /\ c_last.type = "Checksum")
    => /\ c_sum = 0
       /\ SumBytes(0, c_out) = 0
       /\ c_last.writes = 1 => c_out[Len(c_out)] = 220

\* C4 on a sink that accepts every buffer whole
C4_WholeWrites == c_cap = 65543 => C4_SumZeroAfterChecksum

\* C4 happens: a Checksum record was written after two other writes.
C4_Witness ==
    c_last.op = "write_record" /\ c_last.type = "Checksum" /\ c_last.writes = MaxWrites

\* C16: the Composer's running sum is the mod-256 sum of the bytes its sink
\* has accepted, each counted once, whatever part of a buffer the sink takes
\* per write call.
C16_SumOfAcceptedBytes == c_cap # 0 => c_sum = SumBytes(0, c_out)

\* C16 on a sink that accepts every buffer whole
C16_WholeWrites == c_cap = 65543 => C16_SumOfAcceptedBytes

\* C16 happens: a record was written through a sink that takes three bytes
\* per write call.
C16_Witness ==
    /\ c_cap = 3 /\ c_last.op = "write_record" /\ c_last.type = "Text"
    /\ Len(c_out) = 8 + 6

\* The records written so far are Text("Sample File") and End, by a
\* little-endian Composer
SampleFileWritten ==
    /\ endian = "LE"
    /\ c_last.log = <<Rec("Text", "Simple", 0, 0, SampleText), Rec("End", "", 0, 0, <<>>)>>

\* A Text record was the last record written
TextWritten == c_last.op = "write_record" /\ c_last.type = "Text"

\* C24: on a fresh little-endian Composer, write_record(Text("Sample File"))
\* then write_record(End) leave the stream equal to "GARMIN", 0x0064, 0x0005,
\* 0x000B, the 11 ASCII bytes of "Sample File", 0xFFFF, 0x0000; and every
\* Text record written is a header of id 5 whose length is the number of
\* text bytes, followed by those bytes.
C24_SampleFileBytes ==
    /\ SampleFileWritten
       => c_out = <<71, 65, 82, 77, 73, 78, 100, 0, 5, 0, 11, 0,
                    83, 97, 109, 112, 108, 101, 32, 70, 105, 108, 101,
                    255, 255, 0, 0>>
    /\ TextWritten
       => /\ c_last.ret = "Ok"
          /\ c_out = c_last.before \o write_u16(endian, 5)
                      \o write_u16(endian, Len(c_last.rec.data)) \o c_last.rec.data

\* C24 as stated: the Text header of the scenario carries 0x000C and is
\* followed by 12 text bytes, then 0xFFFF, 0x0000.
C24_SampleFileTwelve ==
    SampleFileWritten
    => /\ SubSeq(c_out, 1, 12) = <<71, 65, 82, 77, 73, 78, 100, 0, 5, 0, 12, 0>>
       /\ Len(c_out) = 12 + 12 + 4
       /\ SubSeq(c_out, 25, 28) = <<255, 255, 0, 0>>

\* C24 happens: the two records of the scenario were written through a sink
\* that takes three bytes per write call.
C24_Witness == SampleFileWritten /\ c_cap = 3 /\ c_last.ret = "Ok"

-----------------------------------------------------------------------------
(* DescriptorRecord::new applied to type sequences and data payloads       *)

MaxSlots == 2      \* slots in a DescriptorType sequence
MaxDataLen == 8    \* bytes in a DescriptorData payload

\* The slots the type sequences are made of
SampleSlots ==
    {DType("U8", 10, 0), DType("U16", 10, 0), DType("U32", 21, 0), DType("U64", 1, 0),
     DType("Other", 5, 3), DType("Other", 5, 65535), DType("End", 0, 0)}

TypeLists == UNION {[1..n -> SampleSlots] : n \in 0..MaxSlots}

\* The type payload a type sequence is decoded from
TypeBytes(B, types) ==
    Flatten([i \in 1..Len(types) |-> DescriptorType_to_raw(B, types[i])])

\* The payload of n bytes: 1, 2, ..., n
DataBytes(n) == [i \in 1..n |-> i]

RECURSIVE TrueDataLen(_)
\* The sum of the data lengths of the slots of a type sequence, as an integer
TrueDataLen(types) ==
    IF types = <<>> THEN 0
    ELSE DescriptorType_data_len(Head(types)) + TrueDataLen(Tail(types))

\* DescriptorRecord::new::<F, B>(file, lenght, desc_type) on a file holding
\* the payload D, with lenght = len(D), in a build with or without overflow
\* checks
NewDescriptorRecord ==
    /\ ~d_in.applied
    /\ \E T \in TypeLists, n \in 0..MaxDataLen, checks \in BOOLEAN :
          /\ DecodeTypes(endian, TypeBytes(endian, T)).ok
          /\ DecodeTypes(endian, TypeBytes(endian, T)).descs = T
          /\ d_in' = [applied |-> TRUE, types |-> T, data |-> DataBytes(n),
                      overflow_checks |-> checks]
          /\ d_out' = DescriptorRecord_new(endian, 0, DataBytes(n), n, T, checks)
    /\ UNCHANGED <<endian, parserVars, composerVars, codecVars>>

InitD ==
    /\ endian \in {"LE", "BE"}
    /\ IdleParser
    /\ IdleComposer
    /\ IdleDesc
    /\ IdleCodec

NextD == NewDescriptorRecord

SpecDesc == InitD /\ [][NextD]_vars

\* C6: DescriptorRecord::new(T, D) succeeds if and only if len(D) is the sum
\* of the data lengths of T's slots, and a D of any other length is refused
\* by the length check, before a payload byte is read, also when that sum
\* exceeds 65535.
C6_LengthCheckExact ==
    d_in.applied
    => /\ d_out.ok <=> Len(d_in.data) = TrueDataLen(d_in.types)
       /\ Len(d_in.data) # TrueDataLen(d_in.types)
          => /\ d_out.err = "Record Descriptor data is Invalid/Unexpected"
             /\ d_out.sum = 0

\* C6 for the type sequences whose data lengths sum to at most 65535
C6_WithoutOverflow ==
    TrueDataLen(d_in.types) <= 65535 => C6_LengthCheckExact

\* C6 happens: a payload of the matching length was decoded, and one was
\* refused against slots whose lengths sum to more than 65535.
C6_Witness ==
    /\ d_in.applied /\ TrueDataLen(d_in.types) > 65535
    /\ ~d_out.ok /\ Len(d_in.data) = TrueDataLen(d_in.types) % 65536

-----------------------------------------------------------------------------
(* Composer::write_record_raw applied to data of every length              *)

MaxRawWrites == 2     \* write_record_raw calls made on one composer

\* The lengths of the data write_record_raw is given: none, one byte, the
\* largest length a u16 holds and the first one it does not
RawLens == {0, 1, 65535, 65536}

\* The ids write_record_raw is given, reserved ones included
RawIds == {CHECKSUM_ID, OTHER_FW_ID, END_ID}

\* n bytes of data, none of them constant
RawData(n) == [i \in 1..n |-> i % 251]

\* Composer::write_record_raw(&mut self, id, data) on a sink that takes every
\* buffer whole (a Vec<u8>)
WriteRecordRawLong ==
    /\ c_last.writes < MaxRawWrites
    /\ c_last.ret = "Ok"
    /\ \E id \in RawIds, n \in RawLens : write_record_raw(id, RawData(n))

InitRaw == InitC /\ c_cap = 65543

NextRaw == WriteRecordRawLong

SpecRaw == InitRaw /\ [][NextRaw]_vars

\* What the last write_record_raw appended to the stream
RawAppended == Drop(c_out, Len(c_last.before))

\* The stream is the one before the call, one header with the id and the
\* length len, and the bytes of the data
RawRecordWritten(len) ==
    /\ IsPrefix(c_last.before, c_out)
    /\ Len(RawAppended) = RECORD_HEADER_LEN + Len(c_last.data)
    /\ read_u16(endian, RawAppended) = c_last.id
    /\ read_u16(endian, Drop(RawAppended, 2)) = len
    /\ Drop(RawAppended, RECORD_HEADER_LEN) = c_last.data

\* C30: write_record_raw(id, data) appends one header with the id unchanged
\* and a length field equal to the number of bytes of data, then the bytes
\* of data, for every data length.
C30_RawRecordWritten ==
    (c_last.op = "write_record_raw" /\ c_last.ret = "Ok")
    => RawRecordWritten(Len(c_last.data))

\* What holds for every data length: the length field is the number of bytes
\* of data modulo 65536, which is that number up to 65535 bytes
C30_LengthTruncated ==
    (c_last.op = "write_record_raw" /\ c_last.ret = "Ok")
    => RawRecordWritten(Len(c_last.data) % 65536)

\* C30 fails: 65536 bytes were written behind a header whose length field
\* is 0
C30_Witness ==
    /\ c_last.op = "write_record_raw" /\ c_last.ret = "Ok"
    /\ Len(c_last.data) = 65536
    /\ Len(RawAppended) = RECORD_HEADER_LEN + 65536
    /\ read_u16(endian, Drop(RawAppended, 2)) = 0

-----------------------------------------------------------------------------
(* Composer::write_descriptor applied to slot sequences                    *)

MaxDescriptorWrites == 2   \* Descriptor records written on one composer

\* The slots the written descriptors are made of: one of each primitive kind,
\* an Other slot of three bytes, an Other slot of no byte, and End
ComposerSlots ==
    {DData("U8", 10, 90, <<>>), DData("U16", 10, 16, <<>>), DData("U32", 21, 2, <<>>),
     DData("U64", 1, 0, <<1, 2, 3, 4, 5, 6, 7, 8>>), DData("Other", 5, 0, <<1, 2, 3>>),
     DData("Other", 6, 0, <<>>), DData("End", 0, 0, <<>>)}

\* The slot sequences of the written descriptors
ComposerDescriptors == UNION {[1..n -> ComposerSlots] : n \in 0..MaxSlots}

\* Composer::write_record(&Record::Descriptor(descriptor)), which is
\* Composer::write_descriptor(descriptor)
WriteDescriptor ==
    /\ c_last.writes < MaxDescriptorWrites
    /\ c_last.ret = "Ok"
    /\ \E d \in ComposerDescriptors :
          WrittenRecord(Rec("Descriptor", "Simple", 0, 0, d))

NextW == WriteDescriptor

SpecDescriptorWriter == InitC /\ [][NextW]_vars

\* The type length and the data length of a slot
SlotTypeLen(d) == IF d.kind = "Other" THEN 4 ELSE 2

SlotDataLen(d) ==
    CASE d.kind = "U8" -> 1
      [] d.kind = "U16" -> 2
      [] d.kind = "U32" -> 4
      [] d.kind = "U64" -> 8
      [] d.kind = "Other" -> Len(d.bytes)
      [] d.kind = "End" -> 0

RECURSIVE SumOver(_, _)
SumOver(Op(_), xs) == IF xs = <<>> THEN 0 ELSE Op(Head(xs)) + SumOver(Op, Tail(xs))

\* The DescriptorType record and the DescriptorData record of the slots descs
DescriptorPair(B, descs) ==
    write_u16(B, DESCRIPTOR_TYPE_ID) \o write_u16(B, SumOver(SlotTypeLen, descs))
    \o TypePayload(B, descs)
    \o write_u16(B, DESCRIPTOR_DATA_ID) \o write_u16(B, SumOver(SlotDataLen, descs))
    \o DataPayload(B, descs)

\* C21: for every slot sequence, write_descriptor succeeds and appends a
\* DescriptorType header (id 6) with the sum of the slots' type lengths, the
\* type entries in slot order, a DescriptorData header (id 7) with the sum
\* of the slots' data lengths, and the slot values in the same order.
C21_DescriptorWritten ==
    (c_last.op = "write_record" /\ c_last.type = "Descriptor")
    => /\ c_last.ret = "Ok"
       /\ c_out = c_last.before \o DescriptorPair(endian, c_last.rec.data)

\* Every Other slot of descs is followed by slots without data only
OtherSlotsLast(descs) ==
    \A i \in 1..Len(descs) :
        descs[i].kind = "Other"
        => \A j \in (i + 1)..Len(descs) : SlotDataLen(descs[j]) = 0

\* C21 for the slot sequences in which no slot with data follows an Other
\* slot
C21_OtherSlotsLast ==
    OtherSlotsLast(c_last.rec.data) => C21_DescriptorWritten

\* C21 happens: a descriptor of MaxSlots slots that ends in an Other slot of
\* three bytes was written after another descriptor.
C21_Witness ==
    /\ c_last.op = "write_record" /\ c_last.type = "Descriptor"
    /\ c_last.ret = "Ok" /\ c_last.writes = MaxDescriptorWrites
    /\ Len(c_last.rec.data) = MaxSlots
    /\ c_last.rec.data[1].kind = "U64"
    /\ c_last.rec.data[MaxSlots].kind = "Other"
    /\ Len(c_last.rec.data[MaxSlots].bytes) = 3

-----------------------------------------------------------------------------
(* Round trips through the record codecs                                   *)

MaxTextLen == 3    \* bytes in a TextRecord

\* The bytes the TextRecords are made of: 'H', the two bytes of U+00E9, and
\* a byte no UTF-8 text holds
TextBytes == {72, 195, 169, 255}

TextData == UNION {[1..n -> TextBytes] : n \in 0..MaxTextLen}

\* The TextRecord values: Simple(s) for every s that is a String, Blob(b) for
\* every b
TextRecords ==
    {Rec("Text", "Simple", 0, 0, d) : d \in {x \in TextData : from_utf8(x)}}
    \cup {Rec("Text", "Blob", 0, 0, d) : d \in TextData}

\* The outcome of a round trip that ended in the io::Result r
Decoded(r) == [ok |-> r.ok, rec |-> r.rec, bytes |-> <<>>]

\* r.record_to_raw::<B>(buf), then RecordHeader::from_raw::<B>(buf) and
\* TextRecord::new(payload, len) on what was written
TextRoundTrip ==
    /\ rt_in.op = "none"
    /\ \E r \in TextRecords :
          /\ rt_in' = [op |-> "text", rec |-> r, bytes |-> <<>>]
          /\ rt_out' = Decoded(TextRecord_new(0,
                            Drop(TextRecord_record_to_raw(endian, r), RECORD_HEADER_LEN),
                            from_raw(endian, TextRecord_record_to_raw(endian, r)).len))
    /\ UNCHANGED <<endian, parserVars, composerVars, descVars>>

\* The ids of the DescriptorType entries
EntryIds == {0, 3, 10, 4095}

\* The DescriptorType entries on the wire: a 16-bit value of kind 0..5 and a
\* 12-bit id, and for kind 4 a 16-bit length after it
TypeEntries(B) ==
    {write_u16(B, kind * 4096 + id) : kind \in {0, 1, 2, 3, 5}, id \in EntryIds}
    \cup {write_u16(B, 4 * 4096 + id) \o write_u16(B, len) : id \in EntryIds, len \in {0, 3}}

\* The DescriptorType payloads of 1..MaxSlots entries
TypePayloads(B) ==
    UNION {{Flatten(es) : es \in [1..n -> TypeEntries(B)]} : n \in 1..MaxSlots}

\* The slots d decoded from a payload, written back with DescriptorType::to_raw
Reencoded(B, d) ==
    [ok |-> d.ok, rec |-> Rec("DescriptorType", "Simple", 0, 0, d.descs),
     bytes |-> IF d.ok THEN TypeBytes(B, d.descs) ELSE <<>>]

\* DescriptorType::from_raw::<B> over a whole payload, then
\* DescriptorType::to_raw::<B> of every slot decoded
DescriptorTypeRoundTrip ==
    /\ rt_in.op = "none"
    /\ \E payload \in TypePayloads(endian) :
          /\ rt_in' = [op |-> "types", rec |-> NoRecord, bytes |-> payload]
          /\ rt_out' = Reencoded(endian, DecodeTypes(endian, payload))
    /\ UNCHANGED <<endian, parserVars, composerVars, descVars>>

\* The ids and the lengths of the headers decoded: every reserved id, ids
\* next to them, two firmware ids; the lengths the reserved ids go with,
\* others, and the largest
HeaderIds == {0, 1, 2, 3, 4, 5, 6, 7, 8, OTHER_FW_ID, FONT_ID, 65534, END_ID}

HeaderLens == {0, 1, 2, 9, 65535}

MaxHeaderBuf == 5  \* bytes in the buffer given to RecordHeader::from_raw

\* What a header round trip gave: the header from_raw returned, seen through
\* id() and len(), and the bytes to_raw wrote for it
HeaderOutcome(B, r) ==
    [ok |-> r.ok,
     rec |-> Rec("RecordHeader", r.hdr.kind,
                 IF r.ok THEN header_id(r.hdr) ELSE 0,
                 IF r.ok THEN header_len(r.hdr) ELSE 0, <<>>),
     bytes |-> IF r.ok THEN header_to_raw(B, r.hdr) ELSE <<>>]

\* RecordHeader::from_raw::<B>(data) on the first n bytes of a buffer that
\* starts with id and len, then h.id(), h.len() and h.to_raw::<B>(buf)
HeaderRoundTrip ==
    /\ rt_in.op = "none"
    /\ \E id \in HeaderIds, len \in HeaderLens, n \in 0..MaxHeaderBuf :
          /\ rt_in' = [op |-> "header", rec |-> Rec("RecordHeader", "", id, len, <<>>),
                       bytes |-> Take(Wire(endian, id, len, <<>>).hdr \o <<171, 205>>, n)]
          /\ rt_out' = HeaderOutcome(endian,
                          RecordHeader_from_raw(endian,
                              Take(Wire(endian, id, len, <<>>).hdr \o <<171, 205>>, n)))
    /\ UNCHANGED <<endian, parserVars, composerVars, descVars>>

\* The entries of the DescriptorType payloads decoded: a kind 0..15, a 12-bit
\* id and, for kind 4, the 16-bit length that follows
PayloadEntries ==
    {[kind |-> k, id |-> id, len |-> 0] : k \in {0, 1, 2, 3, 5, 6, 15}, id \in {0, 3, 4095}}
    \cup {[kind |-> 4, id |-> id, len |-> len] : id \in {0, 3, 4095}, len \in {0, 3}}

\* The bytes of an entry
EntryBytes(B, e) ==
    write_u16(B, e.kind * 4096 + e.id) \o (IF e.kind = 4 THEN write_u16(B, e.len) ELSE <<>>)

\* What follows the entries of a payload: nothing, one byte more, or a
\* kind-4 entry without its length
PayloadTail(B, tail) ==
    CASE tail = "none" -> <<>>
      [] tail = "odd" -> <<16>>
      [] tail = "cut" -> write_u16(B, 4 * 4096 + 5)

\* DescriptorTypeRecord::new::<F, B>(file, lenght) on a file that holds the
\* payload and lenght its length
NewDescriptorTypeRecord(es, tail, payload) ==
    /\ rt_in' = [op |-> "type_new", rec |-> Rec("Payload", tail, 0, Len(payload), es),
                 bytes |-> payload]
    /\ rt_out' = Decoded(DescriptorTypeRecord_new(endian, 0, payload, Len(payload)))
    /\ UNCHANGED <<endian, parserVars, composerVars, descVars>>

TypeRecordNew ==
    /\ rt_in.op = "none"
    /\ \E n \in 0..MaxSlots, tail \in {"none", "odd", "cut"} :
          \E es \in [1..n -> PayloadEntries] :
             NewDescriptorTypeRecord(es, tail,
                 Flatten([i \in 1..n |-> EntryBytes(endian, es[i])])
                 \o PayloadTail(endian, tail))

\* The payloads MainRecord::new is given: the two constants under either byte
\* order, each with one byte changed, with a byte more, and cut short
MainConstants ==
    {write_u16(E, DEFAULT_HWID) : E \in {"LE", "BE"}}
    \cup {write_wide(E, DEFAULT_PART_NUMBER) : E \in {"LE", "BE"}}

MainPayloads ==
    MainConstants
    \cup UNION {{[c EXCEPT ![i] = (@ + 1) % 256] : i \in 1..Len(c)} : c \in MainConstants}
    \cup {c \o <<0>> : c \in MainConstants}
    \cup {SubSeq(c, 1, Len(c) - 1) : c \in MainConstants}

MainLengths == {0, 1, 2, 3, 8, 9, 10}

\* MainRecord::new::<F, B>(file, lenght) on a file that holds `payload`
MainRecordNew ==
    /\ rt_in.op = "none"
    /\ \E payload \in MainPayloads, lenght \in MainLengths :
          /\ rt_in' = [op |-> "main_new", rec |-> Rec("Main", "", 0, lenght, <<>>),
                       bytes |-> payload]
          /\ rt_out' = Decoded(MainRecord_new(endian, 0, payload, lenght))
    /\ UNCHANGED <<endian, parserVars, composerVars, descVars>>

\* r.record_to_raw::<B>(buf), then RecordHeader::from_raw::<B>(buf) and
\* MainRecord::new(payload, len) on what was written
MainRoundTrip ==
    /\ rt_in.op = "none"
    /\ \E v \in {"DefaultHWID", "DefaultPartNumber"} :
          /\ rt_in' = [op |-> "main", rec |-> Rec("MainHeader", v, 0, 0, <<>>),
                       bytes |-> MainRecord_record_to_raw(endian, Rec("MainHeader", v, 0, 0, <<>>))]
          /\ rt_out' = Decoded(MainRecord_new(endian, 0,
                            Drop(MainRecord_record_to_raw(endian, Rec("MainHeader", v, 0, 0, <<>>)),
                                 RECORD_HEADER_LEN),
                            from_raw(endian,
                                MainRecord_record_to_raw(endian, Rec("MainHeader", v, 0, 0, <<>>))).len))
    /\ UNCHANGED <<endian, parserVars, composerVars, descVars>>

FillerLen == 100   \* bytes in the longest Filler payload

FillerLens == {0, 1, 2, 3, FillerLen}

\* The payloads FillerRecord::new is given: n zeros, and n zeros with one
\* byte, at any position, replaced by 1 or by 255
FillerPayloads ==
    {[i \in 1..n |-> 0] : n \in FillerLens}
    \cup UNION {{[i \in 1..n |-> IF i = k THEN b ELSE 0] : k \in 1..n, b \in {1, 255}} :
                  n \in FillerLens}

\* FillerRecord::new(data)
FillerRecordNew ==
    /\ rt_in.op = "none"
    /\ \E data \in FillerPayloads :
          /\ rt_in' = [op |-> "filler_new", rec |-> NoRecord, bytes |-> data]
          /\ rt_out' = Decoded(FillerRecord_new(data, 0))
    /\ UNCHANGED <<endian, parserVars, composerVars, descVars>>

\* What FillerRecord::new gives for the payload of the encoded record buf
FillerReadBack(buf, r) == [ok |-> r.ok, rec |-> r.rec, bytes |-> buf]

\* FillerRecord::Zeros(n).record_to_raw::<B>(buf), then FillerRecord::new on
\* the payload written
FillerRoundTrip ==
    /\ rt_in.op = "none"
    /\ \E n \in FillerLens :
          /\ rt_in' = [op |-> "filler", rec |-> Rec("Filler", "Zeros", 0, n, <<>>),
                       bytes |-> <<>>]
          /\ rt_out' = FillerReadBack(
                          FillerRecord_record_to_raw(endian, Rec("Filler", "Zeros", 0, n, <<>>)),
                          FillerRecord_new(
                              Drop(FillerRecord_record_to_raw(endian,
                                       Rec("Filler", "Zeros", 0, n, <<>>)),
                                   RECORD_HEADER_LEN), 0))
    /\ UNCHANGED <<endian, parserVars, composerVars, descVars>>

\* The slots DescriptorDecoded::decode is given: every kind with every id
\* that has a meaning under some kind, ids next to them and the largest id
DecodeIds == {0, 8, 9, 10, 11, 12, 13, 14, 19, 20, 21, 22, 23, 24, 25, 26, 27, 4095}

DecodeSlots ==
    {DData(k, id, v, <<>>) : k \in {"U8", "U16", "U32"}, id \in DecodeIds, v \in {0, 90}}
    \cup {DData("U64", id, 0, <<0, 0, 0, 0, 0, 0, 0, 90>>) : id \in DecodeIds}
    \cup {DData("Other", id, 0, b) : id \in DecodeIds, b \in {<<>>, <<90>>}}
    \cup {DData("End", 0, 0, <<>>)}

\* What DescriptorDecoded::decode returned: Some(tag(val)) or None
DecodeOutcome(r) == [ok |-> r.some, rec |-> Rec("Decoded", r.tag, 0, r.val, <<>>), bytes |-> <<>>]

\* DescriptorDecoded::decode(src)
DecodeSlot ==
    /\ rt_in.op = "none"
    /\ \E d \in DecodeSlots :
          /\ rt_in' = [op |-> "decode", rec |-> Rec("Slot", d.kind, d.id, d.data, d.bytes),
                       bytes |-> <<>>]
          /\ rt_out' = DecodeOutcome(DescriptorDecoded_decode(d))
    /\ UNCHANGED <<endian, parserVars, composerVars, descVars>>

InitCodec ==
    /\ endian \in {"LE", "BE"}
    /\ IdleParser
    /\ IdleComposer
    /\ IdleDesc
    /\ IdleCodec

NextCodec ==
    \/ TextRoundTrip \/ DescriptorTypeRoundTrip \/ HeaderRoundTrip \/ TypeRecordNew
    \/ MainRecordNew \/ MainRoundTrip
    \/ FillerRecordNew \/ FillerRoundTrip
    \/ DecodeSlot

SpecCodec == InitCodec /\ [][NextCodec]_vars

\* C18: a TextRecord encoded with record_to_raw and decoded with
\* TextRecord::new comes back with the same bytes; as the same variant when
\* it is Simple or a Blob whose bytes are not UTF-8, and as Simple when it is
\* a Blob whose bytes are UTF-8.
C18_TextRoundTripByBytes ==
    rt_in.op = "text"
    => /\ rt_out.ok
       /\ rt_out.rec.data = rt_in.rec.data
       /\ (rt_in.rec.variant = "Simple" \/ ~from_utf8(rt_in.rec.data))
          => rt_out.rec = rt_in.rec
       /\ (rt_in.rec.variant = "Blob" /\ from_utf8(rt_in.rec.data))
          => rt_out.rec.variant = "Simple"

\* C18 as stated: a TextRecord of either variant comes back as the same
\* variant with the same bytes.
C18_TextRoundTrip ==
    rt_in.op = "text" => (rt_out.ok /\ rt_out.rec = rt_in.rec)

\* C18 happens: a Blob of bytes that are not UTF-8 came back as it was.
C18_Witness ==
    /\ rt_in.op = "text" /\ rt_in.rec.variant = "Blob"
    /\ Len(rt_in.rec.data) = MaxTextLen /\ rt_out.rec = rt_in.rec

\* C20: a DescriptorType payload that decodes is reproduced byte for byte by
\* DescriptorType::to_raw over the decoded slots, End entries of any id
\* included.
C20_TypePayloadRoundTrip ==
    (rt_in.op = "types" /\ rt_out.ok) => rt_out.bytes = rt_in.bytes

\* C20 for the payloads whose End entries all carry id 3
C20_EndIdThree ==
    (\A i \in 1..(Len(rt_in.bytes) \div 2) :
        LET v == read_u16(endian, SubSeq(rt_in.bytes, 2 * i - 1, 2 * i)) IN
        v \div 4096 = 5 => v = 5 * 4096 + 3)
    => C20_TypePayloadRoundTrip

\* C20 happens: a payload with an Other entry and an End entry of id 3 was
\* decoded and written back.
C20_Witness ==
    /\ rt_in.op = "types" /\ rt_out.ok /\ Len(rt_out.rec.data) = 2
    /\ rt_out.rec.data[1].kind = "Other" /\ rt_out.rec.data[2].kind = "End"
    /\ rt_out.bytes = rt_in.bytes
\* C23: RecordHeader::from_raw fails on fewer than 4 bytes; otherwise the
\* header h it returns has h.id() = id and h.len() = len, is Checksum only
\* for (1, 1), End only for (0xFFFF, 0), Unknown for every id outside
\* {2, 3, 5, 6, 7} that is not one of those two pairs, and to_raw writes the
\* same 4 bytes back.
C23_HeaderRoundTrip ==
    rt_in.op = "header"
    => IF Len(rt_in.bytes) < 4 THEN ~rt_out.ok
       ELSE /\ rt_out.ok
            /\ rt_out.rec.id = rt_in.rec.id
            /\ rt_out.rec.len = rt_in.rec.len
            /\ rt_out.rec.variant = "Checksum"
                  <=> (rt_in.rec.id = 1 /\ rt_in.rec.len = 1)
            /\ rt_out.rec.variant = "End"
                  <=> (rt_in.rec.id = 65535 /\ rt_in.rec.len = 0)
            /\ (/\ rt_in.rec.id \notin {2, 3, 5, 6, 7}
                /\ rt_out.rec.variant \notin {"Checksum", "End"})
                  => rt_out.rec.variant = "Unknown"
            /\ rt_out.bytes = Take(rt_in.bytes, 4)

\* C23 happens: a header of id 1 and length 2, with a byte more in the
\* buffer, was decoded as Unknown.
C23_Witness ==
    /\ rt_in.op = "header" /\ Len(rt_in.bytes) = MaxHeaderBuf /\ rt_out.ok
    /\ rt_in.rec.id = CHECKSUM_ID /\ rt_in.rec.len = 2
    /\ rt_out.rec.variant = "Unknown"

\* The bytes hold "GARMIN" and then the version 100 under byte order B
GoodSignature(B, bytes) ==
    /\ Len(bytes) >= 8
    /\ SubSeq(bytes, 1, 6) = <<71, 65, 82, 77, 73, 78>>
    /\ IF B = "LE" THEN bytes[7] = 100 /\ bytes[8] = 0 ELSE bytes[7] = 0 /\ bytes[8] = 100

\* C25: Parser::new succeeds iff at least 8 bytes are available, the first 6
\* are "GARMIN" and bytes 6-7 read under the parser's byte order are 100; the
\* bytes of Composer::new are accepted by a Parser of the same byte order and
\* rejected by one of the other; no record is read from a rejected stream.
C25_SignatureChecked ==
    rt_in.op = "new"
    => /\ rt_out.ok <=> GoodSignature(endian, rt_in.bytes)
       /\ rt_in.rec.variant \in {"LE", "BE"} => (rt_out.ok <=> rt_in.rec.variant = endian)
       /\ ~rt_out.ok => (hist.calls = 0 /\ result = NoResult /\ call = <<>>)

\* C25 happens: a Parser opened on the bytes of a Composer::new of its own
\* byte order has returned a MainHeader and then a Text record.
C25_Witness ==
    /\ rt_in.op = "new" /\ rt_in.rec.variant = endian /\ rt_out.ok
    /\ hist.calls = MaxOpenedCalls /\ hist.n_main = 1 /\ Returned("Text")

\* The slot an entry of kind 0..5 stands for
SlotOf(e) ==
    CASE e.kind = 0 -> DType("U8", e.id, 0)
      [] e.kind = 1 -> DType("U16", e.id, 0)
      [] e.kind = 2 -> DType("U32", e.id, 0)
      [] e.kind = 3 -> DType("U64", e.id, 0)
      [] e.kind = 4 -> DType("Other", e.id, e.len)
      [] OTHER -> DType("End", 0, 0)

\* C26: DescriptorTypeRecord::new succeeds iff the payload is a sequence of
\* whole entries of kinds 0..5, a kind-4 entry taking a 16-bit length after
\* it; it fails for an odd length, for a kind 6..15 and for a kind-4 entry in
\* the last 2 bytes; the decoded slots are in wire order.
C26_TypeRecordParsed ==
    rt_in.op = "type_new"
    => /\ rt_out.ok <=> (/\ rt_in.rec.variant = "none"
                         /\ \A i \in 1..Len(rt_in.rec.data) :
                               rt_in.rec.data[i].kind \in 0..5)
       /\ Len(rt_in.bytes) % 2 = 1 => ~rt_out.ok
       /\ rt_out.ok
          => rt_out.rec.data = [i \in 1..Len(rt_in.rec.data) |-> SlotOf(rt_in.rec.data[i])]

\* C26 happens: a payload of MaxSlots entries with an Other entry first was
\* decoded, the slot after it in its place.
C26_Witness ==
    /\ rt_in.op = "type_new" /\ rt_out.ok /\ Len(rt_out.rec.data) = MaxSlots
    /\ rt_out.rec.data[1] = DType("Other", 3, 3)
    /\ rt_out.rec.data[MaxSlots] = DType("U16", 4095, 0)

\* 0x0037 and 0x41140D4504135CD410 as bytes under byte order B
HwidBytes(B) == IF B = "LE" THEN <<55, 0>> ELSE <<0, 55>>

PartNumberBytes(B) ==
    IF B = "LE" THEN <<16, 212, 92, 19, 4, 69, 13, 20, 65>>
    ELSE <<65, 20, 13, 69, 4, 19, 92, 212, 16>>

\* C27: MainRecord::new succeeds only for length 2 with 0x0037 (DefaultHWID)
\* or length 9 with 0x41140D4504135CD410 (DefaultPartNumber) under the byte
\* order; every other length or value is an error; record_to_raw writes
\* header (3, 2 or 9) and the constant, which decodes to the same variant.
C27_MainRecordValues ==
    /\ rt_in.op = "main_new"
       => /\ (rt_out.ok /\ rt_out.rec.variant = "DefaultHWID")
               <=> (rt_in.rec.len = 2 /\ Len(rt_in.bytes) >= 2
                    /\ SubSeq(rt_in.bytes, 1, 2) = HwidBytes(endian))
          /\ (rt_out.ok /\ rt_out.rec.variant = "DefaultPartNumber")
               <=> (rt_in.rec.len = 9 /\ Len(rt_in.bytes) >= 9
                    /\ SubSeq(rt_in.bytes, 1, 9) = PartNumberBytes(endian))
          /\ rt_out.ok
               => (/\ rt_out.rec.type = "MainHeader"
                   /\ rt_out.rec.variant \in {"DefaultHWID", "DefaultPartNumber"})
    /\ rt_in.op = "main"
       => /\ rt_in.bytes =
                IF rt_in.rec.variant = "DefaultHWID"
                THEN write_u16(endian, 3) \o write_u16(endian, 2) \o HwidBytes(endian)
                ELSE write_u16(endian, 3) \o write_u16(endian, 9) \o PartNumberBytes(endian)
          /\ rt_out.ok /\ rt_out.rec = rt_in.rec

\* C27 happens: the 9 bytes of the part number, with a byte after them, were
\* decoded as DefaultPartNumber.
C27_Witness ==
    /\ rt_in.op = "main_new" /\ Len(rt_in.bytes) = 10 /\ rt_in.rec.len = 9
    /\ rt_out.ok /\ rt_out.rec.variant = "DefaultPartNumber"

\* C28: FillerRecord::new(data) succeeds, returning Zeros(len(data)), iff
\* every byte of data is 0 (one non-zero byte at any position fails);
\* encoding Zeros(N) writes header (2, N) followed by exactly N zero bytes.
C28_FillerAllZero ==
    /\ rt_in.op = "filler_new"
       => /\ rt_out.ok <=> (\A i \in 1..Len(rt_in.bytes) : rt_in.bytes[i] = 0)
          /\ rt_out.ok => rt_out.rec = Rec("Filler", "Zeros", 0, Len(rt_in.bytes), <<>>)
    /\ rt_in.op = "filler"
       => /\ Len(rt_out.bytes) = 4 + rt_in.rec.len
          /\ SubSeq(rt_out.bytes, 1, 4) = write_u16(endian, 2) \o write_u16(endian, rt_in.rec.len)
          /\ \A i \in 5..Len(rt_out.bytes) : rt_out.bytes[i] = 0
          /\ rt_out.ok /\ rt_out.rec = rt_in.rec

\* C28 happens: FillerLen bytes, all zero but the last, were refused.
C28_Witness ==
    /\ rt_in.op = "filler_new" /\ Len(rt_in.bytes) = FillerLen
    /\ rt_in.bytes[FillerLen] = 1 /\ ~rt_out.ok

\* The (kind, id) pairs that have a meaning, each with the meaning
Meanings ==
    {<<"U8", 10, "XorKey">>, <<"U16", 9, "HWID">>, <<"U16", 10, "FirmwareId">>,
     <<"U16", 12, "VersionId12">>, <<"U16", 13, "VersionSw">>,
     <<"U16", 20, "VersionId20">>, <<"U16", 21, "VersionRemote">>,
     <<"U32", 21, "FirmwareLen">>, <<"U32", 23, "Firmware2000P1Len">>,
     <<"U32", 24, "Firmware2000P2Len">>, <<"U32", 25, "Firmware2000P3Len">>,
     <<"U32", 26, "FirmwareAddr">>}

\* C29: DescriptorDecoded::decode never fails; it gives the listed meaning
\* for each listed (kind, id) pair with the slot's value, End for End, and
\* None for every other pair, every U64 and every Other slot; an id never has
\* the same meaning under two primitive kinds.
C29_DecodeTable ==
    /\ rt_in.op = "decode"
       => /\ rt_in.rec.variant = "End" => (rt_out.ok /\ rt_out.rec.variant = "End")
          /\ \A m \in Meanings :
                (rt_in.rec.variant = m[1] /\ rt_in.rec.id = m[2])
                => (rt_out.ok /\ rt_out.rec.variant = m[3] /\ rt_out.rec.len = rt_in.rec.len)
          /\ (/\ rt_in.rec.variant # "End"
              /\ \A m \in Meanings : ~(rt_in.rec.variant = m[1] /\ rt_in.rec.id = m[2]))
             => ~rt_out.ok
          /\ rt_in.rec.variant \in {"U64", "Other"} => ~rt_out.ok
    /\ \A id \in DecodeIds, v \in {0, 90} :
          \A k1, k2 \in {"U8", "U16", "U32"} :
             (/\ k1 # k2
              /\ DescriptorDecoded_decode(DData(k1, id, v, <<>>)).some
              /\ DescriptorDecoded_decode(DData(k2, id, v, <<>>)).some)
             => DescriptorDecoded_decode(DData(k1, id, v, <<>>)).tag
                # DescriptorDecoded_decode(DData(k2, id, v, <<>>)).tag

\* C29 happens: a U32 slot of id 21 was decoded as the firmware length, with
\* its value.
C29_Witness ==
    /\ rt_in.op = "decode" /\ rt_in.rec.variant = "U32" /\ rt_in.rec.id = 21
    /\ rt_out.ok /\ rt_out.rec.variant = "FirmwareLen" /\ rt_out.rec.len = 90

\* C31: the Composer keeps no grammar state. A write_record of a record other
\* than Checksum panics or returns Ok by the record alone, and appends the
\* bytes the record has under the byte order, whatever was written before
\* and whatever the running sum is; the byte order and the sink stay as they
\* are, only the output and the sum change.
C31_Step ==
    (c_last'.op = "write_record" /\ c_last'.rec.type # "Checksum")
    => /\ c_last.ret = "Ok"
       /\ IF write_record_panics(c_last'.rec)
          THEN c_last'.ret = "panic" /\ c_out' = c_out /\ c_sum' = c_sum
          ELSE /\ c_last'.ret = "Ok"
               /\ c_out' = c_out \o write_record(endian, 0, c_last'.rec)
       /\ UNCHANGED <<endian, c_cap>>

C31_NoGrammarState == [][C31_Step]_vars

\* C31 happens: a Text record was written after End, and a MainHeader after
\* that
C31_Witness ==
    /\ c_last.op = "write_record" /\ c_last.ret = "Ok" /\ c_last.writes = 3
    /\ c_last.log[1].type = "End"
    /\ c_last.log[2].type = "Text"
    /\ c_last.log[3].type = "MainHeader"
    /\ Len(c_out) = 8 + 4 + 6 + 6

\* The next call reads a chunk header in a firmware block and takes the
\* chunk: it returns the chunk, or the stream ends inside the chunk's bytes
ChunkAccepted ==
    /\ call' # <<>>
    /\ call'[Len(call')].st \in {"DescriptorData", "FirmwareData"}
    /\ WireKind(call'[Len(call')].w) = "Unknown"
    /\ \/ result'.ok /\ result'.rec.type = "FirmwareData"
       \/ result'.err = "UnexpectedEof"

C32_Step ==
    /\ 0 <= firmware.lenght_left /\ firmware.lenght_left <= firmware.lenght
    /\ 0 <= firmware'.lenght_left /\ firmware'.lenght_left <= firmware'.lenght
    /\ IF result'.ok /\ result'.rec.type = "Descriptor"
       THEN /\ firmware'.lenght = Declared(result'.rec.data)
            /\ firmware'.lenght_left = firmware'.lenght
       ELSE IF ChunkAccepted
       THEN /\ firmware'.lenght = firmware.lenght
            /\ WireLen(call'[Len(call')].w) <= firmware.lenght_left
            /\ firmware'.lenght_left
                  = firmware.lenght_left - WireLen(call'[Len(call')].w)
       ELSE firmware'.lenght = firmware.lenght
            /\ firmware'.lenght_left = firmware.lenght_left
    /\ (~hist'.failed /\ hist'.n_desc > 0)
       => firmware'.lenght_left = hist'.declared - hist'.received

\* C32: the remaining length of the firmware state is always between 0 and
\* the total length. A returned Descriptor sets both to the length it
\* declares, every chunk taken since lowers the remaining length by its
\* length, which is never more than what remains, and nothing else changes
\* either: the remaining length is the declared length minus the lengths of
\* the chunks taken since the Descriptor.
C32_RemainingLength == [][C32_Step]_vars

\* C32 happens: after a Descriptor that declared MaxFwLen bytes and a chunk of
\* one byte, MaxFwLen - 1 bytes remain.
C32_Witness ==
    /\ Returned("FirmwareData") /\ ~hist.failed
    /\ hist.declared = MaxFwLen /\ hist.received = 1
    /\ firmware.lenght = MaxFwLen /\ firmware.lenght_left = MaxFwLen - 1

\* The positions of the slots of descs of the given kind with an id of ids
SlotsOf(descs, kind, ids) ==
    {i \in 1..Len(descs) : descs[i].kind = kind /\ descs[i].id \in ids}

\* The slot of descs at the greatest of the positions ps
LastOf(descs, ps) == descs[CHOOSE i \in ps : \A j \in ps : j <= i]

\* C33: when a returned Descriptor has several slots that hold a firmware
\* length (U32 slots 21, 23, 24, 25), the length used for the block is the
\* value of the last of them in slot order; the last firmware id slot
\* (U16, 10) and the last xor key slot (U8, 10) are the ones used as well.
C33_LastSlotWins ==
    Returned("Descriptor")
    => /\ firmware.lenght
            = LastOf(result.rec.data, SlotsOf(result.rec.data, "U32", {21, 23, 24, 25})).data
       /\ firmware.lenght_left = firmware.lenght
       /\ firmware.id = LastOf(result.rec.data, SlotsOf(result.rec.data, "U16", {10})).data
       /\ SlotsOf(result.rec.data, "U8", {10}) # {}
          => firmware.xor_key
               = LastOf(result.rec.data, SlotsOf(result.rec.data, "U8", {10})).data

\* C33 happens: a Descriptor whose first slot is the part 3 length MaxFwLen
\* and whose second slot is the firmware length 1 was returned, and the
\* length of the block is 1.
C33_Witness ==
    /\ Returned("Descriptor")
    /\ Len(result.rec.data) = 3
    /\ result.rec.data[1] = DData("U32", 25, MaxFwLen, <<>>)
    /\ result.rec.data[2] = DData("U32", 21, 1, <<>>)
    /\ firmware.lenght = 1 /\ firmware.lenght_left = 1

C34_Step ==
    /\ result'.ok
       => /\ call' # <<>>
          /\ WireKind(call'[Len(call')].w) # "DescriptorType"
          /\ \A i \in 1..(Len(call') - 1) : WireKind(call'[i].w) = "DescriptorType"
    /\ \A i \in 1..Len(call') :
          (/\ WireKind(call'[i].w) = "DescriptorType"
           /\ call'[i].st \in {"Main", "DescriptorData"}
           /\ i < Len(call'))
          => /\ descriptor_type' = DecodeTypes(endian, call'[i].w.data).descs
             /\ call'[i + 1].st = "DescriptorType"
    /\ ~hist'.failed => hist'.calls = hist'.n_wires - hist'.n_types

C35_PayloadsReadWhole ==
    (result.ok /\ hist.calls > 0) => hist.consumed = hist.framed

\* What holds: as long as no call has failed, every payload has been read
\* whole
C35_UntilFirstFailure ==
    (~hist.failed /\ hist.calls > 0) => hist.consumed = hist.framed

\* C35 fails: a call refused a header without reading the payload behind
\* it, and the next call read a header from where that payload starts and
\* returned a record.
C35_Witness ==
    /\ result.ok /\ hist.failed
    /\ hist.calls = 2 /\ hist.n_wires = 2
    /\ hist.consumed < hist.framed

\* What a Parser of the Composer's byte order gets from parse_checksum when it
\* has read the output up to the last record written and reads that record:
\* parse_record reads the 4 header bytes, parse_checksum the byte behind them
ChecksumReadBack ==
    parse_checksum(read_exact(SumBytes(0, c_last.before), RawAppended,
                              RECORD_HEADER_LEN).sum,
                   Drop(RawAppended, RECORD_HEADER_LEN))

\* C36: whatever records the Composer has written before it, a Checksum record
\* the Composer writes is one the Parser accepts. The Parser reads a Checksum
\* header, its running sum after the checksum byte is 0, parse_checksum
\* returns the record, and the sum on the read side is the sum on the write
\* side.
C36_ChecksumsAccepted ==
    (c_last.op = "write_record" /\ c_last.type = "Checksum")
    => /\ from_raw(endian, Take(RawAppended, RECORD_HEADER_LEN)).kind = "Checksum"
       /\ ChecksumReadBack.ok
       /\ ChecksumReadBack.sum = 0
       /\ ChecksumReadBack.sum = c_sum

\* C36 on a sink that accepts every buffer whole
C36_WholeWrites == c_cap = 65543 => C36_ChecksumsAccepted

\* C36 fails: the Checksum record the Composer wrote after two other records
\* through a sink that takes one byte per write call is one parse_checksum
\* refuses.
C36_Witness ==
    /\ c_last.op = "write_record" /\ c_last.type = "Checksum"
    /\ c_last.writes = MaxWrites /\ c_cap = 1
    /\ ~ChecksumReadBack.ok
    /\ ChecksumReadBack.err = "Invalid Checksum Value"


\* The call read one wire record only, a `kind` header met in one of `S`,
\* and failed
FailedOn(kind, S) ==
    /\ Len(call') = 1
    /\ WireKind(call'[1].w) = kind
    /\ call'[1].st \in S
    /\ ~result'.ok

C37_Step ==
    /\ (/\ call' # <<>>
        /\ WireKind(call'[Len(call')].w) = "End"
        /\ call'[Len(call')].st \in {"DescriptorData", "FirmwareData"}
        /\ firmware.lenght_left # 0)
       => /\ ~result'.ok /\ result'.err = "Firmware Chunk too small"
          /\ state' = "End"
          /\ firmware' = firmware
    /\ state = "End"
       => /\ ~result'.ok /\ result'.err = "Unable to read after End Record"
          /\ state' = "End"
    /\ FailedOn("DescriptorType", {"Main", "DescriptorData", "FirmwareData"})
       => /\ state' = "DescriptorType"
          /\ descriptor_type' = descriptor_type

\* C37: the parser assigns the grammar state of the header it matched before
\* it runs the checks of that header. An End header met in state
\* DescriptorData or FirmwareData while bytes of the firmware remain fails
\* with "Firmware Chunk too small" and leaves the parser in state End, so
\* that every later call fails with "Unable to read after End Record". A
\* DescriptorType header met in state Main, DescriptorData or FirmwareData
\* whose close check or payload decoding fails leaves the parser in state
\* DescriptorType with the buffered DescriptorType as it was.
C37_StateAdvancedFirst == [][C37_Step]_vars

\* C37 happens: an End header failed the truncated-firmware check, and the
\* call after it was refused as a read after End; no End was ever returned.
C37_Witness ==
    /\ state = "End" /\ hist.n_end = 0 /\ hist.failed
    /\ firmware.lenght_left # 0
    /\ call = <<>>
    /\ result.err = "Unable to read after End Record"

\* The call read a header of length 0 carrying the active firmware id in
\* state DescriptorData or FirmwareData
EmptyChunkMet ==
    /\ call' # <<>>
    /\ call'[Len(call')].st \in {"DescriptorData", "FirmwareData"}
    /\ WireKind(call'[Len(call')].w) = "Unknown"
    /\ WireId(call'[Len(call')].w) = firmware.id
    /\ WireLen(call'[Len(call')].w) = 0

C38_Step ==
    EmptyChunkMet
    => /\ result'.ok
       /\ result'.rec = Rec("FirmwareData", "EmptyChunk", firmware.id, 0, <<>>)
       /\ state' = "FirmwareData"
       /\ firmware' = firmware
       /\ hist'.received = hist.received

\* C38: a chunk header of length 0 that carries the active firmware id is
\* accepted whenever it is met in state DescriptorData or FirmwareData,
\* whatever the remaining length, 0 included: the call returns
\* FirmwareRecord::EmptyChunk with that id, leaves the parser in state
\* FirmwareData and leaves the firmware state, the remaining length with
\* it, as it was.
C38_EmptyChunkAccepted == [][C38_Step]_vars

\* C38 happens: after a Descriptor that declared no byte, the third call
\* returned an empty chunk (only a chunk moves the parser from
\* DescriptorData to FirmwareData) and the fourth, met in state
\* FirmwareData with nothing remaining, returned an empty chunk again.
C38_Witness ==
    /\ Returned("FirmwareData") /\ result.rec.variant = "EmptyChunk"
    /\ Len(call) = 1 /\ call[1].st = "FirmwareData"
    /\ state = "FirmwareData"
    /\ firmware.lenght = 0 /\ firmware.lenght_left = 0
    /\ ~hist.failed /\ hist.calls = 4 /\ hist.n_wires = 5
    /\ hist.n_main = 1 /\ hist.n_desc = 1 /\ hist.received = 0
=============================================================================
